---- MODULE Spec2Model ----
(***************************************************************************)
(* Model of the financial-statement extraction pipeline:                   *)
(*   app/core/extractors/base_extractor.py     (label normalizer)           *)
(*   app/core/extractors/free_extractor.py     (free-form engine)           *)
(*   app/core/extractors/pattern_extractor.py  (pattern-matching engine)    *)
(*   app/core/document_processor.py            (engine fallback)            *)
(*                                                                         *)
(* Texts are TLA+ strings and are processed character by character, the    *)
(* way the Python string methods and regular expressions process them.     *)
(* A Python float is represented by its canonical decimal expansion (sign, *)
(* integer digits without leading zeros, fraction digits without trailing  *)
(* zeros); two floats of at most 15 significant digits are equal exactly   *)
(* when their expansions are.                                              *)
(*                                                                         *)
(* Intermediate values are handed on as operator parameters (the local     *)
(* variables of the Python code are the parameters of the next operator).  *)
(***************************************************************************)
EXTENDS Integers, Sequences, FiniteSets, TLC

(***************************************************************************)
(* Bounds of the model.                                                    *)
(***************************************************************************)
\* number of lines of a document text
MaxLines == 2
\* number of pieces a number token handed to the parser is made of
MaxPieces == 4

(***************************************************************************)
(* Characters and the Python string methods the extractors use.            *)
(***************************************************************************)
NL == "\n"
Digits == {"0", "1", "2", "3", "4", "5", "6", "7", "8", "9"}
\* str.strip() and the regex class \s: the whitespace of the modelled texts
Whitespace == {" ", "\t", "\n"}
UpperCase == "ABCDEFGHIJKLMNOPQRSTUVWXYZ"
LowerCase == "abcdefghijklmnopqrstuvwxyz"
Letters == {SubSeq(UpperCase, i, i) : i \in 1..26} \cup {SubSeq(LowerCase, i, i) : i \in 1..26}

Char(s, i) == SubSeq(s, i, i)
IsDigit(c) == c \in Digits
IsSpace(c) == c \in Whitespace
Max(a, b) == IF a >= b THEN a ELSE b
Min(a, b) == IF a <= b THEN a ELSE b
Range(seq) == {seq[i] : i \in 1..Len(seq)}
\* the greatest element of a non-empty set of integers
MaxOf(S) == CHOOSE x \in S : \A y \in S : y <= x
\* the least element of a non-empty set of integers
MinOf(S) == CHOOSE x \in S : \A y \in S : x <= y

\* s[i:] of Python, 1-based
From(s, i) == SubSeq(s, i, Len(s))
\* s.startswith(p)
StartsWith(s, p) == Len(p) <= Len(s) /\ SubSeq(s, 1, Len(p)) = p
\* s.endswith(p)
EndsWith(s, p) == Len(p) <= Len(s) /\ SubSeq(s, Len(s) - Len(p) + 1, Len(s)) = p
\* p occurs in s at index i
MatchAt(s, p, i) == i >= 1 /\ i + Len(p) - 1 <= Len(s) /\ SubSeq(s, i, i + Len(p) - 1) = p
\* p in s
Contains(s, p) == \E i \in 1..(Len(s) - Len(p) + 1) : MatchAt(s, p, i)
\* s.index(p) for a p that occurs in s, 1-based
IndexOf(s, p) == MinOf({i \in 1..(Len(s) - Len(p) + 1) : MatchAt(s, p, i)})

\* s.replace(c, r) for a one-character c
RECURSIVE Replace(_, _, _)
Replace(s, c, r) ==
  IF s = "" THEN ""
  ELSE (IF Head(s) = c THEN r ELSE Head(s)) \o Replace(Tail(s), c, r)

\* the character with the given code point, of those the texts hold
CodePoint(hex) ==
  CASE hex = "20ac" -> "€"
    [] hex = "00a3" -> "£"
    [] hex = "00a5" -> "¥"
    [] OTHER -> "?"
RECURSIVE Unescaped(_)
\* the text that s spells, s writing a character outside ASCII as its
\* Python escape \uXXXX
Unescaped(s) ==
  IF s = "" THEN ""
  ELSE IF Len(s) >= 6 /\ MatchAt(s, "\\u", 1)
  THEN CodePoint(SubSeq(s, 3, 6)) \o Unescaped(From(s, 7))
  ELSE Head(s) \o Unescaped(Tail(s))

RECURSIVE LStrip(_)
LStrip(s) == IF s # "" /\ IsSpace(Head(s)) THEN LStrip(Tail(s)) ELSE s
RECURSIVE RStrip(_)
RStrip(s) == IF s # "" /\ IsSpace(Char(s, Len(s))) THEN RStrip(SubSeq(s, 1, Len(s) - 1)) ELSE s
\* s.strip()
Strip(s) == RStrip(LStrip(s))

LowerChar(c) ==
  IF \E i \in 1..26 : Char(UpperCase, i) = c
  THEN Char(LowerCase, CHOOSE i \in 1..26 : Char(UpperCase, i) = c)
  ELSE c
\* s.lower()
RECURSIVE Lower(_)
Lower(s) == IF s = "" THEN "" ELSE LowerChar(Head(s)) \o Lower(Tail(s))

\* s.split(sep) for a one-character sep: never empty, "" gives [""]
RECURSIVE Split(_, _)
Split(s, sep) ==
  IF ~Contains(s, sep) THEN <<s>>
  ELSE <<SubSeq(s, 1, IndexOf(s, sep) - 1)>> \o Split(From(s, IndexOf(s, sep) + 1), sep)

\* sep.join(seq)
RECURSIVE Join(_, _)
Join(seq, sep) ==
  IF Len(seq) = 0 THEN ""
  ELSE IF Len(seq) = 1 THEN seq[1]
  ELSE seq[1] \o sep \o Join(Tail(seq), sep)

(***************************************************************************)
(* Python floats and float(str).                                           *)
(***************************************************************************)
None == [kind |-> "None", neg |-> FALSE, ip |-> "", fp |-> ""]
\* stands where float() raised ValueError
ValueError == [kind |-> "ValueError", neg |-> FALSE, ip |-> "", fp |-> ""]
RECURSIVE StripLeadingZeros(_)
StripLeadingZeros(s) ==
  IF Len(s) > 1 /\ Head(s) = "0" THEN StripLeadingZeros(Tail(s))
  ELSE IF s = "" THEN "0" ELSE s
RECURSIVE StripTrailingZeros(_)
StripTrailingZeros(s) ==
  IF s # "" /\ Char(s, Len(s)) = "0" THEN StripTrailingZeros(SubSeq(s, 1, Len(s) - 1)) ELSE s
\* the float of canonical integer digits i and fraction digits f; -0.0 == 0.0
CanonicalFloat(neg, i, f) ==
  [kind |-> "float", neg |-> neg /\ ~(i = "0" /\ f = ""), ip |-> i, fp |-> f]
\* the float with the given sign, integer digits and fraction digits
Float(neg, ip, fp) == CanonicalFloat(neg, StripLeadingZeros(ip), StripTrailingZeros(fp))
AllDigits(s) == \A i \in 1..Len(s) : IsDigit(Char(s, i))

\* digits "." digits, with a digit on one side at least
FloatOfParts(neg, ip, fp) ==
  IF AllDigits(ip) /\ AllDigits(fp) /\ (ip # "" \/ fp # "")
  THEN Float(neg, ip, fp) ELSE ValueError
\* the unsigned part of a float literal
FloatOfBody(neg, body) ==
  IF ~Contains(body, ".")
  THEN IF body # "" /\ AllDigits(body) THEN Float(neg, body, "") ELSE ValueError
  ELSE FloatOfParts(neg, SubSeq(body, 1, IndexOf(body, ".") - 1),
                    From(body, IndexOf(body, ".") + 1))
\* an optional sign, then the unsigned part
FloatOfStripped(t) ==
  FloatOfBody(t # "" /\ Head(t) = "-",
              IF t # "" /\ Head(t) \in {"-", "+"} THEN Tail(t) ELSE t)
\* float(s): surrounding whitespace is ignored, then an optional sign and
\* digits with at most one "."; everything else the modelled texts can hold
\* raises ValueError (they hold no exponent, "inf", "nan" or "_" spelling)
PyFloat(s) == FloatOfStripped(Strip(s))

(***************************************************************************)
(* PatternExtractor._parse_number                                          *)
(***************************************************************************)
\* "(...)" for negative numbers: '-' + number_str[1:-1]
Parenthesized(s) ==
  IF StartsWith(s, "(") /\ EndsWith(s, ")") THEN "-" \o SubSeq(s, 2, Len(s) - 1) ELSE s
\* European format (1.234,56 -> 1234.56), tested on the string the commas
\* were already removed from
European(s) ==
  IF Contains(s, ".") /\ Contains(s, ",")
  THEN IF IndexOf(s, ".") < IndexOf(s, ",")
       THEN Replace(Replace(s, ".", ""), ",", ".") ELSE s
  ELSE s
\* try: return float(...) except ValueError: return None
CatchValueError(r) == IF r.kind = "ValueError" THEN None ELSE r

\* the parser without its try/except: a ValueError of float() reaches the caller
Pattern_parse_number_uncaught(number_str) ==
  PyFloat(European(Parenthesized(Replace(Replace(number_str, ",", ""), " ", ""))))

Pattern_parse_number(number_str) ==
  CatchValueError(
    PyFloat(European(Parenthesized(Replace(Replace(number_str, ",", ""), " ", "")))))

(***************************************************************************)
(* FreeExtractor._parse_number                                             *)
(***************************************************************************)
\* float() is not guarded here: a ValueError propagates to the caller
Free_parse_number(num_str) == PyFloat(Strip(Replace(num_str, ",", "")))

(***************************************************************************)
(* The regular expressions of the extractors, matched the way Python's re  *)
(* matches them (leftmost, greedy, lazy where written).                    *)
(***************************************************************************)
\* the number of digits at s[i..], at most max: \d{1,max} taken greedily
RECURSIVE DigitRun(_, _, _)
DigitRun(s, i, max) ==
  IF max = 0 \/ i > Len(s) \/ ~IsDigit(Char(s, i)) THEN 0
  ELSE 1 + DigitRun(s, i + 1, max - 1)

\* [seps]\d{3} follows index j
GroupAfter(s, j, seps) ==
  j + 4 <= Len(s) /\ Char(s, j + 1) \in seps /\ DigitRun(s, j + 2, 3) = 3

\* (?:[seps]\d{3})* taken greedily after index j: the index of its last character
RECURSIVE GroupsEnd(_, _, _)
GroupsEnd(s, j, seps) == IF GroupAfter(s, j, seps) THEN GroupsEnd(s, j + 4, seps) ELSE j

\* (?:\.\d{fmin,fmax})? taken greedily after index j
FracEnd(s, j, fmin, fmax) ==
  IF j + 1 <= Len(s) /\ Char(s, j + 1) = "." /\ DigitRun(s, j + 2, fmax) >= fmin
  THEN j + 1 + DigitRun(s, j + 2, fmax) ELSE j

\* \d{1,3}(?:[seps]\d{3})*(?:\.\d{fmin,fmax})? at the digit s[i], with nothing
\* after it in the pattern: the index of the last character of the match
NumEnd(s, i, seps, fmin, fmax) ==
  FracEnd(s, GroupsEnd(s, i + DigitRun(s, i, 3) - 1, seps), fmin, fmax)

\* every index at which (?:[seps]\d{3})* can end after index j
RECURSIVE GroupEnds(_, _, _)
GroupEnds(s, j, seps) ==
  {j} \cup (IF GroupAfter(s, j, seps) THEN GroupEnds(s, j + 4, seps) ELSE {})
\* g and the ends of (?:\.\d{2})? after each index of g
WithFracEnds(s, g) == g \cup {FracEnd(s, j, 2, 2) : j \in g}
\* every index at which a match of \d{1,3}(?:[seps]\d{3})*(?:\.\d{2})? that
\* starts at the digit s[i] can end; the regex engine tries them longest first
NumEnds(s, i, seps) == WithFracEnds(s, GroupEnds(s, i + DigitRun(s, i, 3) - 1, seps))

\* the first index >= i of s that holds a digit, 0 when there is none
RECURSIVE FirstDigit(_, _)
FirstDigit(s, i) ==
  IF i > Len(s) THEN 0 ELSE IF IsDigit(Char(s, i)) THEN i ELSE FirstDigit(s, i + 1)

\* re.findall(r'\$?(\d{1,3}(?:,\d{3})*(?:\.\d{1,2})?)', s) from index i on;
\* a match starts at every digit the match before did not take
RECURSIVE FindAllDollarNumbers(_, _)
FindAllDollarNumbers(s, i) ==
  IF FirstDigit(s, i) = 0 THEN <<>>
  ELSE <<SubSeq(s, FirstDigit(s, i), NumEnd(s, FirstDigit(s, i), {","}, 1, 2))>>
       \o FindAllDollarNumbers(s, NumEnd(s, FirstDigit(s, i), {","}, 1, 2) + 1)

\* the number of digits at s[i..]: \d* taken greedily
RECURSIVE AllDigitRun(_, _)
AllDigitRun(s, i) ==
  IF i > Len(s) \/ ~IsDigit(Char(s, i)) THEN 0 ELSE 1 + AllDigitRun(s, i + 1)
\* \.?\d* after index e
PlainFracEnd(s, e) ==
  IF e + 1 <= Len(s) /\ Char(s, e + 1) = "." THEN e + 1 + AllDigitRun(s, e + 2) ELSE e
\* \d+\.?\d* at the digit s[d]
PlainNumberAt(s, d) == SubSeq(s, d, PlainFracEnd(s, d + AllDigitRun(s, d) - 1))
\* re.findall(r'(\d+\.?\d*)', s)[0:1]: the first match, <<>> when there is none
FirstPlainNumber(s) ==
  IF FirstDigit(s, 1) = 0 THEN <<>> ELSE <<PlainNumberAt(s, FirstDigit(s, 1))>>

\* 20\d{2} at index i
IsYear20At(s, i) == MatchAt(s, "20", i) /\ DigitRun(s, i + 2, 2) = 2
\* 20\d{2}|19\d{2} at index i
IsYearAt(s, i) == (MatchAt(s, "20", i) \/ MatchAt(s, "19", i)) /\ DigitRun(s, i + 2, 2) = 2

\* re.findall(r'20\d{2}|19\d{2}', s) from index i on
RECURSIVE FindAllYears(_, _)
FindAllYears(s, i) ==
  IF i > Len(s) THEN <<>>
  ELSE IF IsYearAt(s, i) THEN <<SubSeq(s, i, i + 3)>> \o FindAllYears(s, i + 4)
  ELSE FindAllYears(s, i + 1)

\* the index after the whitespace run that starts at i (i itself when none)
RECURSIVE SkipSpace(_, _)
SkipSpace(s, i) == IF i <= Len(s) /\ IsSpace(Char(s, i)) THEN SkipSpace(s, i + 1) ELSE i

\* (20\d{2})\s+(20\d{2}) matches at index i
YearPairAt(s, i) ==
  /\ IsYear20At(s, i)
  /\ SkipSpace(s, i + 4) > i + 4
  /\ IsYear20At(s, SkipSpace(s, i + 4))

(***************************************************************************)
(* app/models/financial.py                                                 *)
(***************************************************************************)
\* IncomeStatementItem, in enumeration order
IncomeStatementItem ==
  << "Revenue", "Cost of Revenue", "Gross Profit", "Operating Expenses",
     "Research & Development", "Selling, General & Administrative",
     "Operating Income", "Interest Expense", "Income Tax", "Net Income", "EBITDA" >>
\* set(IncomeStatementItem)
AllItems == {IncomeStatementItem[i] : i \in 1..Len(IncomeStatementItem)}

\* ExtractedValue(value=value, confidence=confidence, original_text=original_text)
ExtractedValue(value, confidence, original_text) ==
  [value |-> value, confidence |-> confidence, original_text |-> original_text]

\* a dict is a function on its keys; {} is the function with no key
EmptyDict == <<>>
\* d[k] = v
DictSet(d, k, v) == [x \in (DOMAIN d) \cup {k} |-> IF x = k THEN v ELSE d[x]]
\* the truth value of a dict: it has a key
Truthy(d) == DOMAIN d # {}
\* any(d.values()) for a dict of dicts: some period holds an item
AnyValues(d) == \E p \in DOMAIN d : DOMAIN d[p] # {}

\* the (data, raw, warnings) triple every strategy returns
StrategyOutput(data, raw, warnings) == [data |-> data, raw |-> raw, warnings |-> warnings]
\* a warning text; the summary of the missing items keeps the items it names
Warning(msg) == [msg |-> msg, items |-> {}]
MissingWarning(items) == [msg |-> "Missing items", items |-> items]

\* data[p1][item] = v1; data[p2][item] = v2; raw[p1][item] = raw[p2][item] = line
RecordPair(out, p1, p2, item, v1, v2, line) ==
  StrategyOutput(
    [out.data EXCEPT ![p1] = DictSet(@, item, ExtractedValue(v1, "high", line)),
                     ![p2] = DictSet(@, item, ExtractedValue(v2, "high", line))],
    [out.raw EXCEPT ![p1] = DictSet(@, item, line), ![p2] = DictSet(@, item, line)],
    out.warnings)

\* data["Current"][item] = value; raw["Current"][item] = line
RecordCurrent(out, item, value, line) ==
  StrategyOutput(
    [out.data EXCEPT !["Current"] = DictSet(@, item, ExtractedValue(value, "high", line))],
    [out.raw EXCEPT !["Current"] = DictSet(@, item, line)],
    out.warnings)

(***************************************************************************)
(* BaseExtractor._normalize_line_item                                      *)
(***************************************************************************)
\* the mappings dict, in insertion order
mappings ==
  << <<"revenue", "Revenue">>, <<"sales", "Revenue">>,
     <<"total revenue", "Revenue">>, <<"operating revenue", "Revenue">>,
     <<"cost of revenue", "Cost of Revenue">>, <<"cost of sales", "Cost of Revenue">>,
     <<"cost of goods sold", "Cost of Revenue">>, <<"cogs", "Cost of Revenue">>,
     <<"gross profit", "Gross Profit">>, <<"gross margin", "Gross Profit">>,
     <<"operating expenses", "Operating Expenses">>, <<"opex", "Operating Expenses">>,
     <<"total operating expenses", "Operating Expenses">>, <<"expenses", "Operating Expenses">>,
     <<"research and development", "Research & Development">>,
     <<"r&d", "Research & Development">>,
     <<"research & development", "Research & Development">>,
     <<"research and development expenses", "Research & Development">>,
     <<"selling general and administrative", "Selling, General & Administrative">>,
     <<"sg&a", "Selling, General & Administrative">>,
     <<"selling, general & administrative", "Selling, General & Administrative">>,
     <<"selling, general and administrative", "Selling, General & Administrative">>,
     <<"selling general and admin", "Selling, General & Administrative">>,
     <<"operating income", "Operating Income">>, <<"operating profit", "Operating Income">>,
     <<"income from operations", "Operating Income">>,
     <<"interest expense", "Interest Expense">>, <<"interest", "Interest Expense">>,
     <<"finance costs", "Interest Expense">>,
     <<"income tax", "Income Tax">>, <<"tax expense", "Income Tax">>,
     <<"provision for income taxes", "Income Tax">>, <<"income tax expense", "Income Tax">>,
     <<"net income", "Net Income">>, <<"net profit", "Net Income">>,
     <<"net earnings", "Net Income">>, <<"bottom line", "Net Income">>,
     <<"ebitda", "EBITDA">>, <<"earnings before interest", "EBITDA">> >>

\* "no match": the None the normalizer returns
NoItem == "None"

\* the indices of the entries of table (pairs <<phrase, value>>) whose phrase
\* occurs in s
ContainedEntries(table, s) == {i \in 1..Len(table) : Contains(s, table[i][1])}
\* the first of them in the table's order, 0 when there is none
FirstOf(S) == IF S = {} THEN 0 ELSE MinOf(S)
FirstContained(table, s) == FirstOf(ContainedEntries(table, s))

\* the partial matches, tried when no key of mappings occurs
PartialMatch(text_lower) ==
  IF Contains(text_lower, "r&d") \/ Contains(text_lower, "research")
  THEN "Research & Development"
  ELSE IF Contains(text_lower, "sg&a") \/ Contains(text_lower, "selling")
  THEN "Selling, General & Administrative"
  ELSE NoItem
NormalizeLower(text_lower, i) == IF i # 0 THEN mappings[i][2] ELSE PartialMatch(text_lower)
NormalizeStripped(text_lower) ==
  NormalizeLower(text_lower, FirstContained(mappings, text_lower))
\* a variant that matches the label as it is written, not lower-cased
normalize_line_item_as_written(text) == NormalizeStripped(Strip(text))
\* text_lower = text.lower().strip(), then the table, then the partial matches
normalize_line_item(text) == NormalizeStripped(Strip(Lower(text)))

(***************************************************************************)
(* FreeExtractor: the strategies                                           *)
(***************************************************************************)
\* item_mapping of _extract_table_format, in insertion order
item_mapping ==
  << <<"Revenue", "Revenue">>, <<"Cost of revenue", "Cost of Revenue">>,
     <<"Gross profit", "Gross Profit">>,
     <<"Research and development", "Research & Development">>,
     <<"Selling, general and admin", "Selling, General & Administrative">>,
     <<"Total operating expenses", "Operating Expenses">>,
     <<"Operating income", "Operating Income">>,
     <<"Interest expense", "Interest Expense">>,
     <<"Income tax expense", "Income Tax">>, <<"Net income", "Net Income">>,
     <<"EBITDA", "EBITDA">> >>

\* the first item of item_mapping that occurs in the line, when the line
\* holds two numbers: val1 goes to "2023" and val2 to "2022", whatever the
\* document's header says
TableFormatMatch(out, line, numbers, i) ==
  IF i = 0 \/ Len(numbers) < 2 THEN out
  ELSE RecordPair(out, "2023", "2022", item_mapping[i][2],
                  Free_parse_number(numbers[1]), Free_parse_number(numbers[2]), line)
TableFormatStripped(out, line) ==
  IF line = "" \/ Contains(line, "CONSOLIDATED") \/ Contains(line, "In millions")
  THEN out
  ELSE TableFormatMatch(out, line, FindAllDollarNumbers(line, 1),
                        FirstContained(item_mapping, line))
\* the body of the loop of _extract_table_format for one line
TableFormatLine(out, rawline) == TableFormatStripped(out, Strip(rawline))

RECURSIVE TableFormatLoop(_, _)
TableFormatLoop(out, lines) ==
  IF lines = <<>> THEN out
  ELSE TableFormatLoop(TableFormatLine(out, Head(lines)), Tail(lines))

Free_extract_table_format(lines) ==
  TableFormatLoop(
    StrategyOutput([p \in {"2023", "2022"} |-> EmptyDict],
                   [p \in {"2023", "2022"} |-> EmptyDict], <<>>),
    lines)

\* key_mapping of _extract_key_value_format
key_mapping ==
  << <<"Revenue", "Revenue">>, <<"Expenses", "Operating Expenses">>,
     <<"Net Income", "Net Income">> >>
\* the index of key in key_mapping, 0 when key is no key of it
KeyIndex(key) == FirstOf({i \in 1..Len(key_mapping) : key_mapping[i][1] = key})

\* value = float(numbers[0]), recorded when the key is one of key_mapping
KeyValueFormatMatch(out, line, k, numbers) ==
  IF numbers = <<>> \/ k = 0 THEN out
  ELSE RecordCurrent(out, key_mapping[k][2], PyFloat(numbers[1]), line)
\* parts = line.split(':', 1), the colon at index c
KeyValueFormatParts(out, line, c) ==
  KeyValueFormatMatch(out, line, KeyIndex(Strip(SubSeq(line, 1, c - 1))),
                      FirstPlainNumber(Strip(From(line, c + 1))))
\* the body of the loop of _extract_key_value_format for one line
KeyValueFormatLine(out, line) ==
  IF ~Contains(line, ":") THEN out ELSE KeyValueFormatParts(out, line, IndexOf(line, ":"))

RECURSIVE KeyValueFormatLoop(_, _)
KeyValueFormatLoop(out, lines) ==
  IF lines = <<>> THEN out
  ELSE KeyValueFormatLoop(KeyValueFormatLine(out, Head(lines)), Tail(lines))

Free_extract_key_value_format(lines) ==
  KeyValueFormatLoop(
    StrategyOutput([p \in {"Current"} |-> EmptyDict], [p \in {"Current"} |-> EmptyDict], <<>>),
    lines)

Free_extract_line_by_line(lines) ==
  StrategyOutput(EmptyDict, EmptyDict, <<Warning("Using basic line-by-line extraction")>>)

(***************************************************************************)
(* PatternExtractor: year detection                                        *)
(***************************************************************************)
\* the two groups of (20\d{2})\s+(20\d{2}) matched at index i, <<>> for i = 0
YearPairFrom(line, i) ==
  IF i = 0 THEN <<>>
  ELSE <<SubSeq(line, i, i + 3),
         SubSeq(line, SkipSpace(line, i + 4), SkipSpace(line, i + 4) + 3)>>
\* re.search(r'(20\d{2})\s+(20\d{2})', line): the two groups, <<>> on no match
YearPairSearch(line) ==
  YearPairFrom(line, FirstOf({i \in 1..Len(line) : YearPairAt(line, i)}))

RECURSIVE Pattern_extract_years_from_table(_)
\* "if match: years = [...]; break"
FirstYearPair(match, rest) ==
  IF match # <<>> THEN match ELSE Pattern_extract_years_from_table(rest)
Pattern_extract_years_from_table(lines) ==
  IF lines = <<>> THEN <<>> ELSE FirstYearPair(YearPairSearch(Head(lines)), Tail(lines))

\* int(y) for a string of digits
DigitValue(c) == CHOOSE n \in 0..9 : Char("0123456789", n + 1) = c
RECURSIVE IntOf(_)
IntOf(y) == IF y = "" THEN 0 ELSE 10 * IntOf(SubSeq(y, 1, Len(y) - 1)) + DigitValue(Char(y, Len(y)))

\* sorted(list(S)) for a set of four-digit strings
RECURSIVE SortedYears(_)
SortedFrom(S, m) == <<m>> \o SortedYears(S \ {m})
SortedYears(S) ==
  IF S = {} THEN <<>>
  ELSE SortedFrom(S, CHOOSE y \in S : \A z \in S : IntOf(y) <= IntOf(z))

Pattern_extract_years(text) == SortedYears(Range(FindAllYears(text, 1)))

(***************************************************************************)
(* PatternExtractor._extract_from_table                                    *)
(***************************************************************************)
\* the class [A-Za-z\s,]
IsLabelChar(c) == c \in Letters \/ IsSpace(c) \/ c = ","

\* the index of the first character from i on that is outside [A-Za-z\s,]
RECURSIVE LabelZoneEnd(_, _)
LabelZoneEnd(s, i) ==
  IF i <= Len(s) /\ IsLabelChar(Char(s, i)) THEN LabelZoneEnd(s, i + 1) ELSE i

\* the index after an optional "$" at index i
SkipDollar(s, i) == IF i <= Len(s) /\ Char(s, i) = "$" THEN i + 1 ELSE i

\* (NUM)$ matches s from index i2 on, after whitespace
RowTailNumber(s, spaced, i2) ==
  IF spaced /\ i2 <= Len(s) /\ IsDigit(Char(s, i2))
     /\ Len(s) \in NumEnds(s, i2, Whitespace \cup {","})
  THEN i2 ELSE 0
\* \s+\$?(NUM)$ matches s from index e + 1 on: the start of the group, 0 on no match
RowTail(s, e) ==
  RowTailNumber(s, SkipSpace(s, e + 1) > e + 1, SkipDollar(s, SkipSpace(s, e + 1)))

\* group 1: the lazy [A-Za-z\s,]+? takes the least it can of the label zone
\* before the \s+, no less than one character
LazyLabel(prefix) == IF RStrip(prefix) = "" THEN Char(prefix, 1) ELSE RStrip(prefix)
\* the groups of the match whose first number is line[i..e]
RowGroups(line, q, i, e) ==
  <<LazyLabel(SubSeq(line, 1, q - 1)), SubSeq(line, i, e), From(line, RowTail(line, e))>>
\* of the ends the first number can have the engine keeps the longest one the
\* rest of the line still matches after
RowMatchEnds(line, q, i, ends) ==
  IF ends = {} THEN <<>> ELSE RowGroups(line, q, i, MaxOf(ends))
RowMatchNumbers(line, q, i) ==
  IF i <= Len(line) /\ IsDigit(Char(line, i))
  THEN RowMatchEnds(line, q, i,
                    {e \in NumEnds(line, i, Whitespace \cup {","}) : RowTail(line, e) # 0})
  ELSE <<>>
\* the label zone ends at index q - 1: it holds a label and whitespace after it
RowMatchLabel(line, q) ==
  IF q >= 3 /\ IsSpace(Char(line, q - 1)) THEN RowMatchNumbers(line, q, SkipDollar(line, q))
  ELSE <<>>
\* re.search(r'^([A-Za-z\s,]+?)\s+\$?(NUM)\s+\$?(NUM)$', line) with
\* NUM = \d{1,3}(?:[,\s]\d{3})*(?:\.\d{2})?: <<group 1, group 2, group 3>>, or
\* <<>> on no match.  The label cannot hold a digit or "$", so it ends where
\* the first number starts.
\* (The second pattern of the method, r'^\s+...', asks for leading whitespace:
\* it matches no line the first one does not.)
RowMatch(line) == RowMatchLabel(line, LabelZoneEnd(line, 1))

\* "lines that are just headers"
header_words == <<"consolidated", "statement", "in millions", "except per share">>
IsHeaderLine(lower) == \E k \in 1..Len(header_words) : Contains(lower, header_words[k])

\* val1 goes to years[1] of Python, the second year, and val2 to years[0]
FromTableItem(out, line, standard_item, match, years) ==
  IF standard_item = NoItem THEN out
  ELSE RecordPair(out, years[2], years[1], standard_item,
                  Pattern_parse_number(match[2]), Pattern_parse_number(match[3]), line)
FromTableMatch(out, line, match, years) ==
  IF match = <<>> THEN out
  ELSE FromTableItem(out, line, normalize_line_item(Strip(match[1])), match, years)
FromTableStripped(out, line, years) ==
  IF line = "" \/ Len(line) < 5 THEN out
  ELSE IF IsHeaderLine(Lower(line)) THEN out
  ELSE FromTableMatch(out, line, RowMatch(line), years)
\* the body of the row loop of _extract_from_table for one line
FromTableLine(out, rawline, years) == FromTableStripped(out, Strip(rawline), years)

RECURSIVE FromTableLoop(_, _, _)
FromTableLoop(out, lines, years) ==
  IF lines = <<>> THEN out
  ELSE FromTableLoop(FromTableLine(out, Head(lines), years), Tail(lines), years)

\* start_idx: the number of lines up to and including the first line that
\* holds every year, 0 when there is none
TableStart(lines, years) ==
  FirstOf({i \in 1..Len(lines) : \A k \in 1..Len(years) : Contains(lines[i], years[k])})

Pattern_extract_from_table(lines, years) ==
  IF Len(years) < 2
  THEN StrategyOutput(EmptyDict, EmptyDict, <<Warning("No years found in table")>>)
  ELSE FromTableLoop(
         StrategyOutput([y \in Range(years) |-> EmptyDict], [y \in Range(years) |-> EmptyDict], <<>>),
         SubSeq(lines, TableStart(lines, years) + 1, Len(lines)),
         years)

(***************************************************************************)
(* PatternExtractor._extract_line_by_line: the context-window strategy     *)
(***************************************************************************)
\* context_lines of _get_year_context
context_lines == 5
\* the characters kept on each side of a match as its surrounding text
surrounding_chars == 50

\* the lines _get_year_context collects from line i on
RECURSIVE YearLines(_, _, _)
YearLines(lines, year, i) ==
  IF i > Len(lines) THEN <<>>
  ELSE (IF Contains(lines[i], year)
        THEN SubSeq(lines, Max(1, i - context_lines), Min(Len(lines), i + context_lines))
        ELSE <<>>) \o YearLines(lines, year, i + 1)

Pattern_get_year_context(text, year) == Join(YearLines(Split(text, NL), year, 1), NL)

\* _get_item_variations
item_variations ==
  [item \in AllItems |->
     CASE item = "Revenue" -> <<"revenue", "sales", "total revenue", "operating revenue">>
       [] item = "Cost of Revenue" ->
            <<"cost of revenue", "cost of sales", "cost of goods sold", "cogs">>
       [] item = "Gross Profit" -> <<"gross profit", "gross margin">>
       [] item = "Operating Expenses" ->
            <<"operating expenses", "opex", "operating costs", "total operating expenses",
              "expenses">>
       [] item = "Research & Development" ->
            <<"research and development", "r&d", "research & development",
              "research and development expenses">>
       [] item = "Selling, General & Administrative" ->
            <<"selling, general and administrative", "sg&a",
              "selling, general & administrative", "selling general and admin",
              "selling general and administrative">>
       [] item = "Operating Income" ->
            <<"operating income", "operating profit", "income from operations">>
       [] item = "Interest Expense" -> <<"interest expense", "interest", "finance costs">>
       [] item = "Income Tax" ->
            <<"income tax", "tax expense", "provision for income taxes", "income tax expense">>
       [] item = "Net Income" -> <<"net income", "net profit", "net earnings", "bottom line">>
       [] item = "EBITDA" -> <<"ebitda", "earnings before interest">>]

\* .*? from index i on: the index of the first digit that no line break
\* separates from i, 0 when there is none
RECURSIVE DigitOnLine(_, _)
DigitOnLine(s, i) ==
  IF i > Len(s) \/ Char(s, i) = NL THEN 0
  ELSE IF IsDigit(Char(s, i)) THEN i ELSE DigitOnLine(s, i + 1)

\* re.search(rf'{variation}.*?(NUM)', context, re.IGNORECASE) tried at index p
VariationAt(context, lower, variation, p) ==
  MatchAt(lower, variation, p) /\ DigitOnLine(context, p + Len(variation)) # 0

\* the match that starts at p and whose number starts at d
VariationNumber(context, p, d) ==
  [start |-> p, num |-> d, end |-> NumEnd(context, d, Whitespace \cup {","}, 2, 2)]
VariationFrom(context, variation, p) ==
  IF p = 0 THEN [start |-> 0, num |-> 0, end |-> 0]
  ELSE VariationNumber(context, p, DigitOnLine(context, p + Len(variation)))
\* the leftmost match: [start, num, end] (1-based, inclusive), start = 0 on no match
VariationSearch(context, lower, variation) ==
  VariationFrom(context, variation,
                FirstOf({p \in 1..Len(context) : VariationAt(context, lower, variation, p)}))

\* _is_recent_year
first_recent_year == 2020
last_recent_year == 2025
Pattern_is_recent_year(text) ==
  \E y \in Range(FindAllYears(text, 1)) :
     first_recent_year <= IntOf(y) /\ IntOf(y) <= last_recent_year

\* what _extract_line_item returns: (value, confidence, original_text)
LineItemResult(value, confidence, original_text) ==
  [value |-> value, confidence |-> confidence, original_text |-> original_text]

\* a variant that takes every match, whatever its surrounding text holds
LineItemCheck_any_span(context, lower, variations, year, k, match, surrounding_text) ==
  LineItemResult(Pattern_parse_number(SubSeq(context, match.num, match.end)), "high",
                 SubSeq(context, match.start, match.end))
\* the loop of _extract_line_item over the variations from the k-th on
RECURSIVE LineItemLoop(_, _, _, _, _)
\* "if year in surrounding_text or self._is_recent_year(surrounding_text)"
LineItemCheck(context, lower, variations, year, k, match, surrounding_text) ==
  IF Contains(surrounding_text, year) \/ Pattern_is_recent_year(surrounding_text)
  THEN LineItemResult(Pattern_parse_number(SubSeq(context, match.num, match.end)), "high",
                      SubSeq(context, match.start, match.end))
  ELSE LineItemLoop(context, lower, variations, year, k + 1)
LineItemMatch(context, lower, variations, year, k, match) ==
  IF match.start = 0 THEN LineItemLoop(context, lower, variations, year, k + 1)
  ELSE LineItemCheck(context, lower, variations, year, k, match,
                     SubSeq(context, Max(1, match.start - surrounding_chars),
                            Min(Len(context), match.end + surrounding_chars)))
LineItemLoop(context, lower, variations, year, k) ==
  IF k > Len(variations) THEN LineItemResult(None, "missing", "")
  ELSE LineItemMatch(context, lower, variations, year, k,
                     VariationSearch(context, lower, variations[k]))

Pattern_extract_line_item(context, item, year) ==
  LineItemLoop(context, Lower(context), item_variations[item], year, 1)

\* a variant that records the value and not its raw extract
ForYearItem_without_raw(out, item, r) ==
  IF r.value # None
  THEN [data |-> DictSet(out.data, item,
                         ExtractedValue(r.value, r.confidence, r.original_text)),
        raw  |-> out.raw]
  ELSE out
\* "if value is not None: data[item] = ...; raw[item.value] = original_text"
ForYearItem(out, item, r) ==
  IF r.value # None
  THEN [data |-> DictSet(out.data, item,
                         ExtractedValue(r.value, r.confidence, r.original_text)),
        raw  |-> DictSet(out.raw, item, r.original_text)]
  ELSE out
\* the loop of _extract_for_year over the items from the k-th on
RECURSIVE ForYearLoop(_, _, _, _)
ForYearLoop(out, context, year, k) ==
  IF k > Len(IncomeStatementItem) THEN out
  ELSE ForYearLoop(
         ForYearItem(out, IncomeStatementItem[k],
                     Pattern_extract_line_item(context, IncomeStatementItem[k], year)),
         context, year, k + 1)

\* (data, raw) of one year
Pattern_extract_for_year(text, year) ==
  ForYearLoop([data |-> EmptyDict, raw |-> EmptyDict],
              Pattern_get_year_context(text, year), year, 1)

\* "if year_data: data[year] = year_data; raw_extracts[year] = year_raw"
LineByLineYear(out, year, y) ==
  IF y.data # EmptyDict
  THEN StrategyOutput(DictSet(out.data, year, y.data), DictSet(out.raw, year, y.raw),
                      out.warnings)
  ELSE out
RECURSIVE LineByLineLoop(_, _, _, _)
LineByLineLoop(out, text, years, k) ==
  IF k > Len(years) THEN out
  ELSE LineByLineLoop(LineByLineYear(out, years[k], Pattern_extract_for_year(text, years[k])),
                      text, years, k + 1)

Pattern_extract_line_by_line(text, years) ==
  LineByLineLoop(StrategyOutput(EmptyDict, EmptyDict, <<>>), text, years, 1)

(***************************************************************************)
(* PatternExtractor._extract_simple_key_value                              *)
(***************************************************************************)
\* re.sub(r'[^\d.-]', '', s)
RECURSIVE KeepNumeric(_)
KeepNumeric(s) ==
  IF s = "" THEN ""
  ELSE (IF IsDigit(Head(s)) \/ Head(s) \in {".", "-"} THEN Head(s) ELSE "")
       \o KeepNumeric(Tail(s))

SimpleKeyValueItem(out, line, value, standard_item) ==
  IF standard_item = NoItem THEN out ELSE RecordCurrent(out, standard_item, value, line)
\* value = float(value_str_clean); "except ValueError: continue"
SimpleKeyValueFloat(out, line, key, value) ==
  IF value.kind = "ValueError" THEN out
  ELSE SimpleKeyValueItem(out, line, value, normalize_line_item(key))
SimpleKeyValueClean(out, line, key, value_str_clean) ==
  IF value_str_clean = "" THEN out
  ELSE SimpleKeyValueFloat(out, line, key, PyFloat(value_str_clean))
\* parts = line.split(':', 1), the colon at index c
SimpleKeyValueParts(out, line, c) ==
  SimpleKeyValueClean(out, line, Strip(SubSeq(line, 1, c - 1)),
                      KeepNumeric(Strip(From(line, c + 1))))
SimpleKeyValueStripped(out, line) ==
  IF line = "" \/ ~Contains(line, ":") THEN out
  ELSE SimpleKeyValueParts(out, line, IndexOf(line, ":"))
\* the body of the loop of _extract_simple_key_value for one line
SimpleKeyValueLine(out, rawline) == SimpleKeyValueStripped(out, Strip(rawline))

RECURSIVE SimpleKeyValueLoop(_, _)
SimpleKeyValueLoop(out, lines) ==
  IF lines = <<>> THEN out
  ELSE SimpleKeyValueLoop(SimpleKeyValueLine(out, Head(lines)), Tail(lines))

Pattern_extract_simple_key_value(lines) ==
  SimpleKeyValueLoop(
    StrategyOutput([p \in {"Current"} |-> EmptyDict], [p \in {"Current"} |-> EmptyDict], <<>>),
    lines)

(***************************************************************************)
(* Currency and unit detection                                             *)
(***************************************************************************)
\* currency_patterns, in insertion order, each with the alternatives of its regex
currency_patterns ==
  << <<"USD", <<"$", "dollar", "dollars", "usd">> >>,
     <<"EUR", <<"€", "euro", "euros", "eur">> >>,
     <<"GBP", <<"£", "pound", "pounds", "gbp">> >>,
     <<"JPY", <<"¥", "yen", "jpy">> >>,
     <<"CNY", <<"¥", "yuan", "cny", "rmb">> >> >>
\* unit_patterns, in insertion order
unit_patterns ==
  << <<"thousands", <<"thousand", "thousands", "k", "000's">> >>,
     <<"millions", <<"million", "millions", "m", "mn", "mln">> >>,
     <<"billions", <<"billion", "billions", "b", "bn">> >> >>

\* re.search of an alternation of literals
SearchAny(alternatives, s) == \E k \in 1..Len(alternatives) : Contains(s, alternatives[k])

PatternName(table, i) == IF i = 0 THEN "UNKNOWN" ELSE table[i][1]
\* the name of the first pattern of table that is found in s, "UNKNOWN" when none is
FirstPattern(table, s) ==
  PatternName(table, FirstOf({i \in 1..Len(table) : SearchAny(table[i][2], s)}))

Pattern_detect_currency(text) == FirstPattern(currency_patterns, Lower(text))
Pattern_detect_unit(text) == FirstPattern(unit_patterns, Lower(text))
Free_detect_currency(text) == IF Contains(text, "$") THEN "USD" ELSE "UNKNOWN"
Free_detect_unit(text) == IF Contains(Lower(text), "millions") THEN "millions" ELSE "UNKNOWN"

(***************************************************************************)
(* Result assembly of the two engines                                      *)
(***************************************************************************)
\* found_items: the union of the item keys of every period
FoundItems(data) == UNION {DOMAIN data[p] : p \in DOMAIN data}
\* a variant that leaves the found items out of account
MissingItems_ignoring_found(data) == AllItems
\* list(all_items - found_items), as the set it lists
MissingItems(data) == AllItems \ FoundItems(data)

NoResult == [status |-> "none"]

\* a variant that does not look at data
FreeConfidence_always_high(data) == "high"
\* "ConfidenceLevel.HIGH if data else ConfidenceLevel.LOW"
FreeConfidence(data) == IF Truthy(data) THEN "high" ELSE "low"
\* FinancialExtractionResult(...) of FreeExtractor.extract
FreeResult(text, out) ==
  [status |-> "returned",
   document_name |-> "Free_Extracted",
   extraction_date |-> "",
   currency |-> Free_detect_currency(text),
   unit |-> Free_detect_unit(text),
   confidence_overall |-> FreeConfidence(out.data),
   data |-> out.data,
   warnings |-> out.warnings,
   missing_items |-> MissingItems(out.data),
   raw_extracts |-> out.raw]

\* "ConfidenceLevel.MEDIUM if data else ConfidenceLevel.LOW"
PatternConfidence(data) == IF Truthy(data) THEN "medium" ELSE "low"
\* "if missing_items: warnings.append(f"Missing items: ...")"
WithMissingWarning(warnings, missing_items) ==
  IF missing_items # {} THEN Append(warnings, MissingWarning(missing_items)) ELSE warnings
\* FinancialExtractionResult(...) of PatternExtractor.extract
PatternResult(text, out) ==
  [status |-> "returned",
   document_name |-> "Pattern_Extracted",
   extraction_date |-> "",
   currency |-> Pattern_detect_currency(text),
   unit |-> Pattern_detect_unit(text),
   confidence_overall |-> PatternConfidence(out.data),
   data |-> out.data,
   warnings |-> WithMissingWarning(out.warnings, MissingItems(out.data)),
   missing_items |-> MissingItems(out.data),
   raw_extracts |-> out.raw]

\* what stands for a strategy's output when the strategy raised an exception
\* other than the ValueError of float()
Exception == [data |-> EmptyDict, raw |-> EmptyDict, warnings |-> <<>>, raised |-> TRUE]
\* a strategy raised: an exception stands for its output, or the ValueError
\* of float() stands where a value would
Raised(out) ==
  \/ "raised" \in DOMAIN out
  \/ \E p \in DOMAIN out.data : \E i \in DOMAIN out.data[p] :
       out.data[p][i].value.kind = "ValueError"

\* "not data or all(len(data.get(year, {})) == 0 for year in periods)"
NoData(data, periods) ==
  \/ ~Truthy(data)
  \/ \A k \in 1..Len(periods) :
       periods[k] \notin DOMAIN data \/ DOMAIN data[periods[k]] = {}

(***************************************************************************)
(* The inputs of the model                                                 *)
(***************************************************************************)
\* the lines a document text is made of
LinePool ==
  { "",
    "2022 2023",
    "2020 2021",
    "Revenue $1,100.2 $1,234.5",
    "Revenue $1,100.20 $1,234.50",
    "Revenue: 1234.5",
    "Net Income: 88.1",
    "Revenue: 1,234.5",
    "Expenses: -5",
    "Revenue: 1.2.3",
    "Sales of 500 in 2021",
    "Net Income 1\t234 5",
    "Notes: none" }

\* the line sequences of one to n lines
LineSeqs(n) == UNION {[1..k -> LinePool] : k \in 1..n}
\* one-line texts that name a currency or a unit
MetadataLines ==
  { "Amounts in EUR", "100 dollars", "\\u00a5 500", "\\u00a35 and \\u20ac6", "Yuan (CNY)",
    "in millions", "USD in thousands", "\\u20ac millions", "5 bn" }
\* the document texts: one to MaxLines lines, and the one-line texts that
\* name a currency or a unit
\* more characters than surrounding_chars, none of them part of a label,
\* a number or a year
Filler == "......................................................."
\* documents where a label and its number stand further from a year than
\* the surrounding text of the match reaches
SpanTexts ==
  {"Revenue 5 " \o Filler \o " 2026 2027 sales 7",
   "2023 Revenue 5 " \o Filler \o " 2027 sales 7"}
Texts == {Join(ls, NL) : ls \in LineSeqs(MaxLines)} \cup MetadataLines \cup SpanTexts

\* the pieces a number token is made of
TokenPieces == {"1", ",234", ".234", ",56", ".56", "(", ")", "-", " ", "abc"}
RECURSIVE TokensOf(_)
\* the tokens of at most n pieces, built from those of at most n - 1
Longer(shorter) == shorter \cup {t \o p : t \in shorter, p \in TokenPieces}
TokensOf(n) == IF n = 0 THEN {""} ELSE Longer(TokensOf(n - 1))
\* the tokens handed to the number parser: up to MaxPieces pieces
Tokens == TokensOf(MaxPieces)

\* the labels handed to the normalizer
Labels ==
  { "R&D", "Selling, General & Administrative", "Revenue", "  Net Income ",
    "Cost of Revenue", "Total Operating Expenses", "Tax", "Research costs",
    "Selling costs", "Dividends", "" }
\* the number of normalizer calls made one after the other
MaxCalls == 3

\* the strategies of the two engines, in which a fault can occur
FaultPoints ==
  { "free_table", "free_key_value", "free_line_by_line",
    "pattern_table", "pattern_line_by_line", "pattern_simple_key_value" }
\* the texts of the calls in which a fault occurs
FaultTexts ==
  { "", "2022 2023", "Revenue: 1234.5",
    "2022 2023" \o NL \o "Revenue $1,100.20 $1,234.50" }

\* the documents of the concurrent calls
ConcurrentTexts ==
  { "Revenue: 1234.5", "Net Income: 88.1", "2022 2023",
    "2022 2023" \o NL \o "Revenue $1,100.20 $1,234.50" }
\* the number of concurrent calls
MaxConcurrent == 2

\* original_filename of the processed upload
filename == "document.txt"
\* datetime.now().isoformat()
now == "now"

(***************************************************************************)
(* The extraction tasks of the API: routes.py                              *)
(***************************************************************************)
\* ExtractionStatus
PENDING == "pending"
PROCESSING == "processing"
COMPLETED == "completed"
FAILED == "failed"
ExtractionStatus == {PENDING, PROCESSING, COMPLETED, FAILED}

\* the extract requests that create a task in one run
MaxTasks == 2
\* str(uuid.uuid4()): the identifiers a task or an output file can get
TaskIds == 1..MaxTasks
IdString(n) == SubSeq("123456789", n, n)

\* settings.allowed_extensions
allowed_extensions == <<".pdf", ".docx", ".txt">>
\* the files of settings.upload_dir
upload_dir == {"uploads/report.pdf", "uploads/notes.txt"}
\* the file_id of an extract request
FileIds == {"report", "notes", "absent"}
\* os.path.join(settings.upload_dir, f"{file_id}{ext}")
UploadPath(file_id, ext) == "uploads/" \o file_id \o ext
\* "for ext in settings.allowed_extensions: if os.path.exists(potential_path)":
\* the extension found from the k-th on, "" when there is none
RECURSIVE FindExtension(_, _)
FindExtension(file_id, k) ==
  IF k > Len(allowed_extensions) THEN ""
  ELSE IF UploadPath(file_id, allowed_extensions[k]) \in upload_dir
       THEN allowed_extensions[k]
       ELSE FindExtension(file_id, k + 1)

\* the entry extract_document makes in processing_tasks
NewTask(file_id, ext) ==
  [status |-> PENDING, file_id |-> file_id, file_path |-> UploadPath(file_id, ext),
   original_filename |-> "document" \o ext]
\* dict.update
Updated(d, fields) ==
  [k \in (DOMAIN d) \cup (DOMAIN fields) |-> IF k \in DOMAIN fields THEN fields[k] ELSE d[k]]
\* a variant that writes the fields into the entry of every task
UpdateTask_every_task(tasks, task_id, fields) ==
  [t \in DOMAIN tasks |-> Updated(tasks[t], fields)]
\* processing_tasks[task_id]["status"] = ..., processing_tasks[task_id].update({...})
UpdateTask(tasks, task_id, fields) ==
  [tasks EXCEPT ![task_id] = Updated(@, fields)]

\* a local variable that is not bound yet
Unbound == "unbound"
\* the coroutine process_document_task(task_id, file_path, original_filename)
\* that background_tasks.add_task queues, at a position, with the locals
\* text of process_document and output_filename of process_document_task
Coroutine(task, position) ==
  [pc |-> position, file_path |-> task.file_path,
   original_filename |-> task.original_filename,
   text |-> [kind |-> Unbound, str |-> ""], output_filename |-> Unbound]

\* the responses of extract_document
NoResponse == [status_code |-> 0]
NotFound == [status_code |-> 404, detail |-> "File not found"]
ExtractionResponse(task_id, status, message) ==
  [status_code |-> 200, task_id |-> task_id, status |-> status, message |-> message]

\* what reading the uploaded file gives: its text, or an exception
Readable(content) == [readable |-> TRUE, text |-> content]
Unreadable == [readable |-> FALSE, text |-> ""]
FileContents == {Readable("Revenue: 1234.5"), Readable(""), Unreadable}
\* _extract_text: the text, None when reading raised
NoText == [kind |-> "None", str |-> ""]
Extract_text(file) == IF file.readable THEN [kind |-> "str", str |-> file.text] ELSE NoText
\* "if not text"
NotText(text) == text.kind = "None" \/ text.str = ""

\* what _extract_financial_data does: it returns a result, or the pattern
\* engine raises
EngineOutcomes == {"result", "raised"}
\* what ExcelGenerator.generate does: it writes the spreadsheet and returns
\* True; or writing raises, it writes the error report and returns False;
\* or writing the error report raises as well and it returns False
ReportOutcomes == {"written", "error_report", "nothing"}
\* f"{uuid.uuid4()}_extraction.xlsx"
OutputFilename(n) == IdString(n) \o "_extraction.xlsx"
\* os.path.join(settings.output_dir, output_filename)
OutputPath(output_filename) == "outputs/" \o output_filename
\* output_path.replace('.xlsx', '_error.txt')
ErrorPath(output_path) == SubSeq(output_path, 1, Len(output_path) - 5) \o "_error.txt"
\* the files of settings.output_dir after ExcelGenerator.generate
Generate(files, output_path, outcome) ==
  CASE outcome = "written" -> files \cup {output_path}
    [] outcome = "error_report" -> files \cup {ErrorPath(output_path)}
    [] OTHER -> files
\* the return value of ExcelGenerator.generate
Generated(outcome) == outcome = "written"
\* None as the output filename of process_document
NoFilename == ""
\* a variant without the else branch: a missing output filename leaves the
\* entry as it is
TaskOutcome_without_else(tasks, task_id, output_filename) ==
  IF output_filename # NoFilename
  THEN UpdateTask(tasks, task_id,
                  [status |-> COMPLETED, output_file |-> output_filename,
                   message |-> "Extraction completed successfully"])
  ELSE tasks
\* "if output_filename: ... else: ..." of process_document_task
TaskOutcome(tasks, task_id, output_filename) ==
  IF output_filename # NoFilename
  THEN UpdateTask(tasks, task_id,
                  [status |-> COMPLETED, output_file |-> output_filename,
                   message |-> "Extraction completed successfully"])
  ELSE UpdateTask(tasks, task_id,
                  [status |-> FAILED, message |-> "Failed to extract data from document"])

(***************************************************************************)
(* State                                                                   *)
(***************************************************************************)
VARIABLES
  entry,          \* the call made: DocumentProcessor._extract_financial_data
                  \* ("document"), FreeExtractor.extract ("free"),
                  \* PatternExtractor.extract ("pattern"),
                  \* PatternExtractor._parse_number ("parse_number"), or
                  \* FreeExtractor._parse_number ("free_parse_number"), or
                  \* a series of BaseExtractor._normalize_line_item calls
                  \* ("normalize")
  fault,          \* the strategy in which an unexpected exception is raised
                  \* during the call, "none" when there is none
  text,           \* the document text of the call, in 7-bit characters: a
                  \* character outside ASCII is written as its \uXXXX escape
  token,          \* the token of a _parse_number call
  pc,             \* the position of the call
  years,          \* years of PatternExtractor.extract
  trace,          \* the strategies run so far, in order, each with its output
  selected,       \* (data, raw_extracts, warnings) the running engine holds
  free_result,    \* what FreeExtractor.extract returned
  pattern_result, \* what PatternExtractor.extract returned
  result,         \* what the call returned
  parsed,         \* what _parse_number returned
  normalized,     \* the _normalize_line_item calls made so far, in order:
                  \* each one's label and what it returned
  calls,          \* the concurrent PatternExtractor.extract calls on one
                  \* extractor: each one's text, position and locals
  processing_tasks, \* routes.processing_tasks: task_id -> the task's entry
  background_tasks, \* the process_document_task coroutines added, each at
                    \* its position
  output_dir,     \* the files of settings.output_dir
  response        \* the response of the last extract request

\* the state of the extraction calls, and the state of the API's tasks
extraction_vars == <<entry, fault, text, token, pc, years, trace, selected, free_result,
                     pattern_result, result, parsed, normalized, calls>>
task_vars == <<processing_tasks, background_tasks, output_dir, response>>
vars == <<entry, fault, text, token, pc, years, trace, selected, free_result, pattern_result,
          result, parsed, normalized, calls, processing_tasks, background_tasks, output_dir,
          response>>
\* no task, no output file, no request yet
NoTasks ==
  /\ processing_tasks = EmptyDict
  /\ background_tasks = EmptyDict
  /\ output_dir = {}
  /\ response = NoResponse

Entries == {"document", "free", "pattern", "parse_number", "free_parse_number", "normalize"}
\* the calls that take a token, and those that take a document text
ParserEntries == {"parse_number", "free_parse_number"}
ExtractionEntries == {"document", "free", "pattern"}
NoOutput == StrategyOutput(EmptyDict, EmptyDict, <<>>)
NotParsed == [kind |-> "not parsed", neg |-> FALSE, ip |-> "", fp |-> ""]

Init ==
  /\ entry \in Entries
  /\ text \in (IF entry \in ExtractionEntries THEN Texts ELSE {""})
  /\ fault \in (IF entry \in ExtractionEntries /\ text \in FaultTexts
                THEN FaultPoints \cup {"none"} ELSE {"none"})
  /\ token \in (IF entry \in ParserEntries THEN Tokens ELSE {""})
  /\ pc = (CASE entry = "parse_number" -> "parse_number"
             [] entry = "free_parse_number" -> "free_parse_number"
             [] entry = "pattern" -> "pattern_years"
             [] entry = "normalize" -> "normalize"
             [] OTHER -> "free_table")
  /\ years = <<>>
  /\ trace = <<>>
  /\ selected = NoOutput
  /\ free_result = NoResult
  /\ pattern_result = NoResult
  /\ result = NoResult
  /\ parsed = NotParsed
  /\ normalized = <<>>
  /\ calls = <<>>
  /\ NoTasks

\* the document text handed to the call
Document(escaped) == IF Contains(escaped, "\\u") THEN Unescaped(escaped) ELSE escaped

\* what the call of a strategy gives: its output, or the exception of the
\* fault that occurs in it
Faulty(strategy, out) == IF fault = strategy THEN Exception ELSE out

Ran(strategy, out) == [strategy |-> strategy, out |-> out]

\* a strategy ran and gave out: the engine holds it and goes on at next_pc
RunStrategy(strategy, out, next_pc) ==
  /\ trace' = Append(trace, Ran(strategy, out))
  /\ selected' = out
  /\ pc' = next_pc

(***************************************************************************)
(* FreeExtractor.extract and _try_all_methods                              *)
(***************************************************************************)
\* a variant that tests "if data" without "any(data.values())"
FreeNext_truthy(out, next) ==
  IF Raised(out) THEN "free_raised"
  ELSE IF Truthy(out.data) THEN "free_assemble"
  ELSE next
\* where _try_all_methods goes after a strategy that is not the last one:
\* "if data and any(data.values()): return data, raw, warnings"
FreeNext(out, next) ==
  IF Raised(out) THEN "free_raised"
  ELSE IF Truthy(out.data) /\ AnyValues(out.data) THEN "free_assemble"
  ELSE next
FreeStep(strategy, out, next) == RunStrategy(strategy, out, FreeNext(out, next))

\* Method 1: table format
FreeTable ==
  /\ pc = "free_table"
  /\ FreeStep("free_table",
              Faulty("free_table", Free_extract_table_format(Split(Document(text), NL))),
              "free_key_value")
  /\ UNCHANGED task_vars
  /\ UNCHANGED <<entry, calls, fault, text, token, normalized, years, free_result, pattern_result,
                 result, parsed>>

\* Method 2: key-value format
FreeKeyValue ==
  /\ pc = "free_key_value"
  /\ FreeStep("free_key_value",
              Faulty("free_key_value",
                     Free_extract_key_value_format(Split(Document(text), NL))),
              "free_line_by_line")
  /\ UNCHANGED task_vars
  /\ UNCHANGED <<entry, calls, fault, text, token, normalized, years, free_result, pattern_result,
                 result, parsed>>

\* Method 3: line by line, returned whatever it holds
FreeLast(strategy, out) ==
  RunStrategy(strategy, out, IF Raised(out) THEN "free_raised" ELSE "free_assemble")
FreeLineByLine ==
  /\ pc = "free_line_by_line"
  /\ FreeLast("free_line_by_line",
              Faulty("free_line_by_line",
                     Free_extract_line_by_line(Split(Document(text), NL))))
  /\ UNCHANGED task_vars
  /\ UNCHANGED <<entry, calls, fault, text, token, normalized, years, free_result, pattern_result,
                 result, parsed>>

\* extract, after _try_all_methods returned: metadata, missing items, result
FreeAssemble ==
  /\ pc = "free_assemble"
  /\ free_result' = FreeResult(Document(text), selected)
  /\ IF entry = "free"
     THEN result' = free_result' /\ pc' = "done"
     ELSE result' = result /\ pc' = "document_check"
  /\ UNCHANGED task_vars
  /\ UNCHANGED <<entry, calls, fault, text, token, normalized, years, trace, selected, pattern_result, parsed>>

(***************************************************************************)
(* PatternExtractor.extract                                                *)
(***************************************************************************)
\* "if not years: years = self._extract_years(text)"
YearsOr(header_years, text_arg) ==
  IF header_years # <<>> THEN header_years ELSE Pattern_extract_years(text_arg)

\* years = _extract_years_from_table(lines) or _extract_years(text);
\* "if years and len(years) >= 2" decides whether the table strategy runs
PatternYears ==
  /\ pc = "pattern_years"
  /\ years' = YearsOr(Pattern_extract_years_from_table(Split(Document(text), NL)),
                      Document(text))
  /\ selected' = NoOutput
  /\ pc' = IF Len(years') >= 2 THEN "pattern_table" ELSE "pattern_simple_key_value"
  /\ UNCHANGED task_vars
  /\ UNCHANGED <<entry, calls, fault, text, token, normalized, trace, free_result, pattern_result, result, parsed>>

\* a variant that goes on to the next strategy whatever the strategy gave
PatternNext_always(out, periods, next) ==
  IF Raised(out) THEN "pattern_raised" ELSE next
\* where extract goes after a strategy that is not the last one
PatternNext(out, periods, next) ==
  IF Raised(out) THEN "pattern_raised"
  ELSE IF NoData(out.data, periods) THEN next
  ELSE "pattern_assemble"
PatternStep(strategy, out, periods, next) ==
  RunStrategy(strategy, out, PatternNext(out, periods, next))

PatternTable ==
  /\ pc = "pattern_table"
  /\ PatternStep("pattern_table",
                 Faulty("pattern_table",
                        Pattern_extract_from_table(Split(Document(text), NL), years)),
                 years, "pattern_line_by_line")
  /\ UNCHANGED task_vars
  /\ UNCHANGED <<entry, calls, fault, text, token, normalized, years, free_result, pattern_result,
                 result, parsed>>

PatternLineByLine ==
  /\ pc = "pattern_line_by_line"
  /\ PatternStep("pattern_line_by_line",
                 Faulty("pattern_line_by_line",
                        Pattern_extract_line_by_line(Document(text), years)),
                 years, "pattern_simple_key_value")
  /\ UNCHANGED task_vars
  /\ UNCHANGED <<entry, calls, fault, text, token, normalized, years, free_result, pattern_result,
                 result, parsed>>

\* the last strategy: extract keeps whatever it gave
LastStep(strategy, out) ==
  RunStrategy(strategy, out, IF Raised(out) THEN "pattern_raised" ELSE "pattern_assemble")
PatternSimpleKeyValue ==
  /\ pc = "pattern_simple_key_value"
  /\ LastStep("pattern_simple_key_value",
              Faulty("pattern_simple_key_value",
                     Pattern_extract_simple_key_value(Split(Document(text), NL))))
  /\ UNCHANGED task_vars
  /\ UNCHANGED <<entry, calls, fault, text, token, normalized, years, free_result, pattern_result,
                 result, parsed>>

\* extract, after the strategies: missing items, summary warning, result
PatternAssemble ==
  /\ pc = "pattern_assemble"
  /\ pattern_result' = PatternResult(Document(text), selected)
  /\ IF entry = "pattern"
     THEN result' = pattern_result' /\ pc' = "done"
     ELSE result' = result /\ pc' = "document_fallback_return"
  /\ UNCHANGED task_vars
  /\ UNCHANGED <<entry, calls, fault, text, token, normalized, years, trace, selected, free_result, parsed>>

(***************************************************************************)
(* DocumentProcessor._extract_financial_data                               *)
(***************************************************************************)
\* result.document_name = filename; result.extraction_date = now
Stamped(r) == [r EXCEPT !.document_name = filename, !.extraction_date = now]

\* a variant that returns the free engine's result whatever it holds
FreeFoundData_unchecked == TRUE
\* "if result.data and any(result.data.values())" of the free engine's result
FreeFoundData == Truthy(free_result.data) /\ AnyValues(free_result.data)

\* the free extractor found data: its result is returned
DocumentReturnFree ==
  /\ pc = "document_check"
  /\ FreeFoundData
  /\ result' = Stamped(free_result)
  /\ pc' = "done"
  /\ UNCHANGED task_vars
  /\ UNCHANGED <<entry, calls, fault, text, token, normalized, years, trace, selected, free_result, pattern_result,
                 parsed>>

\* the free extractor found no data, or raised ("except Exception"): fall
\* back to pattern matching
DocumentFallback ==
  /\ entry = "document"
  /\ IF pc = "free_raised" THEN TRUE ELSE pc = "document_check" /\ ~FreeFoundData
  /\ pc' = "pattern_years"
  /\ UNCHANGED task_vars
  /\ UNCHANGED <<entry, calls, fault, text, token, normalized, years, trace, selected, free_result, pattern_result,
                 result, parsed>>

\* the pattern extractor's result is returned
DocumentReturnPattern ==
  /\ pc = "document_fallback_return"
  /\ result' = Stamped(pattern_result)
  /\ pc' = "done"
  /\ UNCHANGED task_vars
  /\ UNCHANGED <<entry, calls, fault, text, token, normalized, years, trace, selected, free_result, pattern_result,
                 parsed>>

(***************************************************************************)
(* A call of PatternExtractor._parse_number on a token                     *)
(***************************************************************************)
ParseNumber ==
  /\ pc = "parse_number"
  /\ parsed' = Pattern_parse_number(token)
  /\ pc' = "done"
  /\ UNCHANGED task_vars
  /\ UNCHANGED <<entry, calls, fault, text, token, normalized, years, trace, selected, free_result, pattern_result,
                 result>>

(***************************************************************************)
(* A call of FreeExtractor._parse_number on a token: float() is not        *)
(* guarded, so that its ValueError leaves the call                         *)
(***************************************************************************)
FreeParseNumber ==
  /\ pc = "free_parse_number"
  /\ parsed' = Free_parse_number(token)
  /\ pc' = IF Free_parse_number(token) = ValueError THEN "parse_raised" ELSE "done"
  /\ UNCHANGED task_vars
  /\ UNCHANGED <<entry, calls, fault, text, token, normalized, years, trace, selected, free_result, pattern_result,
                 result>>

(***************************************************************************)
(* Calls of BaseExtractor._normalize_line_item, one after the other on the *)
(* same extractor                                                          *)
(***************************************************************************)
Normalized(label, item) == [label |-> label, item |-> item]
NormalizeCall ==
  /\ pc = "normalize"
  /\ Len(normalized) < MaxCalls
  /\ \E label \in Labels :
       normalized' = Append(normalized, Normalized(label, normalize_line_item(label)))
  /\ UNCHANGED task_vars
  /\ UNCHANGED <<entry, calls, fault, text, token, pc, years, trace, selected, free_result,
                 pattern_result, result, parsed>>

Next ==
  \/ FreeTable
  \/ FreeKeyValue
  \/ FreeLineByLine
  \/ FreeAssemble
  \/ PatternYears
  \/ PatternTable
  \/ PatternLineByLine
  \/ PatternSimpleKeyValue
  \/ PatternAssemble
  \/ DocumentReturnFree
  \/ DocumentFallback
  \/ DocumentReturnPattern
  \/ ParseNumber
  \/ FreeParseNumber
  \/ NormalizeCall

Spec == Init /\ [][Next]_vars

(***************************************************************************)
(* Concurrent calls of PatternExtractor.extract on one extractor. The      *)
(* extractor's attributes are the tables set by __init__ and read by the   *)
(* strategies; years, data, raw_extracts and warnings are locals of each   *)
(* call. The calls interleave between any two strategies, which is finer   *)
(* than the event loop interleaves them.                                   *)
(***************************************************************************)
Calls == 1..MaxConcurrent
\* a call that has not run yet
Call(document) ==
  [text |-> document, pc |-> "pattern_years", years |-> <<>>, selected |-> NoOutput,
   result |-> NoResult]

InitConcurrent ==
  /\ entry = "concurrent"
  /\ fault = "none"
  /\ text = ""
  /\ token = ""
  /\ pc = "concurrent"
  /\ years = <<>>
  /\ trace = <<>>
  /\ selected = NoOutput
  /\ free_result = NoResult
  /\ pattern_result = NoResult
  /\ result = NoResult
  /\ parsed = NotParsed
  /\ normalized = <<>>
  /\ calls \in [Calls -> {Call(t) : t \in ConcurrentTexts}]
  /\ NoTasks

\* a variant in which data, raw_extracts and warnings are kept on the
\* extractor, where the first call's stand
SelectedOf_first_call(cs, c) == cs[1].selected
\* data, raw_extracts and warnings of call c: locals of extract
SelectedOf(cs, c) == cs[c].selected

\* the call after years was computed
WithYears(call, call_years) ==
  [call EXCEPT !.years = call_years,
               !.pc = IF Len(call_years) >= 2 THEN "pattern_table"
                      ELSE "pattern_simple_key_value"]
\* the call after a strategy gave out
WithOutput(call, out, next_pc) == [call EXCEPT !.selected = out, !.pc = next_pc]
\* the call after extract returned r
WithResult(call, r) == [call EXCEPT !.result = r, !.pc = "done"]
\* the step of call c leaves the old variables and the other calls alone
CallBecomes(c, call) ==
  /\ calls' = [calls EXCEPT ![c] = call]
  /\ UNCHANGED task_vars
  /\ UNCHANGED <<entry, fault, text, token, pc, years, trace, selected, free_result,
                 pattern_result, result, parsed, normalized>>

ConcurrentYears(c) ==
  /\ calls[c].pc = "pattern_years"
  /\ CallBecomes(c, WithYears(calls[c],
                               YearsOr(Pattern_extract_years_from_table(
                                         Split(Document(calls[c].text), NL)),
                                       Document(calls[c].text))))

ConcurrentTableOutput(c, out) ==
  CallBecomes(c, WithOutput(calls[c], out,
                            PatternNext(out, calls[c].years, "pattern_line_by_line")))
ConcurrentTable(c) ==
  /\ calls[c].pc = "pattern_table"
  /\ ConcurrentTableOutput(c, Pattern_extract_from_table(Split(Document(calls[c].text), NL),
                                                         calls[c].years))

ConcurrentLineByLineOutput(c, out) ==
  CallBecomes(c, WithOutput(calls[c], out,
                            PatternNext(out, calls[c].years, "pattern_simple_key_value")))
ConcurrentLineByLine(c) ==
  /\ calls[c].pc = "pattern_line_by_line"
  /\ ConcurrentLineByLineOutput(c, Pattern_extract_line_by_line(Document(calls[c].text),
                                                                calls[c].years))

ConcurrentSimpleKeyValue(c) ==
  /\ calls[c].pc = "pattern_simple_key_value"
  /\ CallBecomes(c, WithOutput(calls[c],
                                Pattern_extract_simple_key_value(
                                  Split(Document(calls[c].text), NL)),
                                "pattern_assemble"))

ConcurrentAssemble(c) ==
  /\ calls[c].pc = "pattern_assemble"
  /\ CallBecomes(c, WithResult(calls[c],
                                PatternResult(Document(calls[c].text), SelectedOf(calls, c))))

NextConcurrent ==
  \E c \in Calls :
    \/ ConcurrentYears(c)
    \/ ConcurrentTable(c)
    \/ ConcurrentLineByLine(c)
    \/ ConcurrentSimpleKeyValue(c)
    \/ ConcurrentAssemble(c)

SpecConcurrent == InitConcurrent /\ [][NextConcurrent]_vars

(***************************************************************************)
(* The API: extract requests and the background tasks they add.  A         *)
(* background task is a coroutine; its steps are the stretches of          *)
(* process_document_task between two awaits, and the steps of different    *)
(* tasks interleave.  process_document catches every exception of its      *)
(* body, so the handler's own except clause is entered only from lines     *)
(* 185-189, which do not raise for a task extract_document created.        *)
(***************************************************************************)
InitTasks ==
  /\ entry = "tasks"
  /\ fault = "none"
  /\ text = ""
  /\ token = ""
  /\ pc = "tasks"
  /\ years = <<>>
  /\ trace = <<>>
  /\ selected = NoOutput
  /\ free_result = NoResult
  /\ pattern_result = NoResult
  /\ result = NoResult
  /\ parsed = NotParsed
  /\ normalized = <<>>
  /\ calls = <<>>
  /\ NoTasks

\* extract_document(file_id) when uuid4 gives task_id: 404 when no upload
\* has the file_id, else a PENDING entry and a background task
ExtractDocument(file_id, task_id, ext) ==
  IF ext = ""
  THEN /\ response' = NotFound
       /\ UNCHANGED <<processing_tasks, background_tasks>>
  ELSE /\ processing_tasks' = DictSet(processing_tasks, task_id, NewTask(file_id, ext))
       /\ background_tasks' =
            DictSet(background_tasks, task_id, Coroutine(NewTask(file_id, ext), "added"))
       /\ response' = ExtractionResponse(task_id, PENDING, "Extraction started")
ExtractRequest ==
  /\ pc = "tasks"
  /\ \E file_id \in FileIds : \E task_id \in TaskIds \ DOMAIN processing_tasks :
       ExtractDocument(file_id, task_id, FindExtension(file_id, 1))
  /\ UNCHANGED output_dir
  /\ UNCHANGED extraction_vars

\* the coroutine of a task is at the position
At(task_id, position) ==
  /\ pc = "tasks"
  /\ task_id \in DOMAIN background_tasks
  /\ background_tasks[task_id].pc = position
\* the coroutine of a task moves to the position
Goto(task_id, position) ==
  background_tasks' = [background_tasks EXCEPT ![task_id].pc = position]
\* the coroutine of a task binds text and moves to the position
GotoWithText(task_id, position, text_read) ==
  background_tasks' =
    [background_tasks EXCEPT ![task_id].pc = position, ![task_id].text = text_read]
\* process_document returns: the coroutine binds output_filename
Return(coroutines, task_id, output_filename) ==
  [coroutines EXCEPT ![task_id].pc = "returned",
                     ![task_id].output_filename = output_filename]

\* process_document_task up to "await self._extract_text"
StartTask(task_id) ==
  /\ At(task_id, "added")
  /\ processing_tasks' = UpdateTask(processing_tasks, task_id, [status |-> PROCESSING])
  /\ Goto(task_id, "extract_text")
  /\ UNCHANGED <<output_dir, response>>
  /\ UNCHANGED extraction_vars

\* from the return of _extract_text on: without a text process_document
\* returns None and the task fails; with one it awaits
\* _extract_financial_data
TextExtracted(task_id, text_read) ==
  IF NotText(text_read)
  THEN /\ processing_tasks' = TaskOutcome(processing_tasks, task_id, NoFilename)
       /\ background_tasks' =
            Return([background_tasks EXCEPT ![task_id].text = text_read], task_id, NoFilename)
  ELSE /\ GotoWithText(task_id, "extract_financial_data", text_read)
       /\ UNCHANGED processing_tasks
ExtractText(task_id) ==
  /\ At(task_id, "extract_text")
  /\ \E file \in FileContents : TextExtracted(task_id, Extract_text(file))
  /\ UNCHANGED <<output_dir, response>>
  /\ UNCHANGED extraction_vars

\* from the return of _extract_financial_data on: an exception of the
\* engines makes process_document return None; else the report is
\* generated, process_document returns the output filename whatever
\* generate returned, and the entry of the task is updated
DataExtracted(task_id, engines, output_filename, report) ==
  IF engines = "raised"
  THEN /\ processing_tasks' = TaskOutcome(processing_tasks, task_id, NoFilename)
       /\ background_tasks' = Return(background_tasks, task_id, NoFilename)
       /\ UNCHANGED output_dir
  ELSE /\ output_dir' = Generate(output_dir, OutputPath(output_filename), report)
       /\ processing_tasks' = TaskOutcome(processing_tasks, task_id, output_filename)
       /\ background_tasks' = Return(background_tasks, task_id, output_filename)
\* the identifier is new: no file of the output directory carries it
Unused(n) ==
  /\ OutputPath(OutputFilename(n)) \notin output_dir
  /\ ErrorPath(OutputPath(OutputFilename(n))) \notin output_dir
  /\ \A t \in DOMAIN processing_tasks :
       "output_file" \in DOMAIN processing_tasks[t] =>
         processing_tasks[t].output_file # OutputFilename(n)
ExtractFinancialData(task_id) ==
  /\ At(task_id, "extract_financial_data")
  /\ \E engines \in EngineOutcomes : \E report \in ReportOutcomes :
     \E n \in {m \in TaskIds : Unused(m)} :
       DataExtracted(task_id, engines, OutputFilename(n), report)
  /\ UNCHANGED response
  /\ UNCHANGED extraction_vars

\* the steps of the background task of one task
TaskStep(task_id) ==
  \/ StartTask(task_id)
  \/ ExtractText(task_id)
  \/ ExtractFinancialData(task_id)

NextTasks ==
  \/ ExtractRequest
  \/ \E task_id \in TaskIds : TaskStep(task_id)

SpecTasks == InitTasks /\ [][NextTasks]_vars

\* the event loop runs a coroutine that is ready: a step of a background
\* task that stays possible is taken
SpecTasksFair ==
  /\ InitTasks
  /\ [][NextTasks]_vars
  /\ \A task_id \in TaskIds : WF_vars(TaskStep(task_id))

(***************************************************************************)
(* Properties                                                              *)
(***************************************************************************)
\* some period of data holds an item
HasValue(data) == \E p \in DOMAIN data : DOMAIN data[p] # {}
\* the items that some period of data holds
ItemKeys(data) == UNION {DOMAIN data[p] : p \in DOMAIN data}
\* some period of data holds an item with a number for its value
NumberFound(data) ==
  \E p \in DOMAIN data : \E i \in DOMAIN data[p] : data[p][i].value.kind = "float"
\* the (data, raw extracts, warnings) a result carries
OutputOf(r) == StrategyOutput(r.data, r.raw_extracts, r.warnings)
\* the lines of the document text
Lines == Split(Document(text), NL)
\* an extraction call has returned
Returned == pc = "done" /\ entry \in ExtractionEntries
\* the strategies of the two engines
FreeStrategies == {"free_table", "free_key_value", "free_line_by_line"}
PatternStrategies == {"pattern_table", "pattern_line_by_line", "pattern_simple_key_value"}
\* the spec's example values
V1100_2 == Float(FALSE, "1100", "2")
V1234_5 == Float(FALSE, "1234", "5")
V88_1 == Float(FALSE, "88", "1")

\* C1: in the result of FreeExtractor.extract and of PatternExtractor.extract,
\* missing_items is the set of the 11 canonical items minus the items present
\* in some period of data.
C1_MissingItemsComplement ==
  /\ free_result # NoResult =>
       free_result.missing_items = AllItems \ ItemKeys(free_result.data)
  /\ pattern_result # NoResult =>
       pattern_result.missing_items = AllItems \ ItemKeys(pattern_result.data)

\* C1, reached: a document call in which the free engine found nothing (all 11
\* items missing) and the pattern engine found some items but not all
C1_BothEnginesAssembled ==
  /\ entry = "document" /\ pc = "done"
  /\ free_result # NoResult /\ free_result.missing_items = AllItems
  /\ pattern_result # NoResult
  /\ pattern_result.missing_items # AllItems /\ pattern_result.missing_items # {}

\* C2 (as amended): the free engine runs table, key-value, placeholder in
\* this order and returns unchanged the (data, raw extracts, warnings) of the
\* first strategy whose data holds a value, running no strategy after it;
\* when neither the table nor the key-value strategy holds a value it
\* returns the placeholder's output (empty data, one warning), not the
\* key-value strategy's.
C2_FirstStrategyWithValue ==
  free_result # NoResult =>
    /\ Len(trace) >= 1
    /\ trace[1].strategy = "free_table"
    /\ IF HasValue(trace[1].out.data)
       THEN /\ OutputOf(free_result) = trace[1].out
            /\ Len(trace) >= 2 => trace[2].strategy \notin FreeStrategies
       ELSE /\ Len(trace) >= 2
            /\ trace[2].strategy = "free_key_value"
            /\ IF HasValue(trace[2].out.data)
               THEN /\ OutputOf(free_result) = trace[2].out
                    /\ Len(trace) >= 3 => trace[3].strategy \notin FreeStrategies
               ELSE /\ Len(trace) >= 3
                    /\ trace[3].strategy = "free_line_by_line"
                    /\ OutputOf(free_result) = trace[3].out
                    /\ free_result.data = EmptyDict
                    /\ free_result.warnings = <<Warning("Using basic line-by-line extraction")>>

\* C2, reached: the table strategy held no value, the key-value strategy
\* held one, and the engine returned the key-value strategy's output
C2_FellThroughToKeyValue ==
  /\ free_result # NoResult
  /\ ~HasValue(trace[1].out.data)
  /\ HasValue(trace[2].out.data)
  /\ OutputOf(free_result) = trace[2].out

\* C2 as the claim states it: whenever the table strategy yields no value,
\* the engine's data equals exactly the key-value strategy's data.
C2_TableEmptyGivesKeyValue ==
  (free_result # NoResult /\ ~HasValue(trace[1].out.data)) =>
    free_result.data = trace[2].out.data

\* C3: FreeExtractor.extract returns overall confidence HIGH exactly when
\* the returned data holds a value in some period and LOW otherwise; the
\* empty text gives LOW, data without a value and all 11 items missing.
C3_FreeConfidence ==
  free_result # NoResult =>
    /\ free_result.confidence_overall =
         IF HasValue(free_result.data) THEN "high" ELSE "low"
    /\ text = "" =>
         /\ free_result.confidence_overall = "low"
         /\ ~HasValue(free_result.data)
         /\ free_result.missing_items = AllItems
         /\ Cardinality(free_result.missing_items) = 11

\* C3, reached: FreeExtractor.extract returned for the empty text
C3_EmptyTextReturned ==
  /\ entry = "free" /\ pc = "done" /\ text = ""
  /\ result.confidence_overall = "low"
  /\ Len(trace) = 3

\* C4 as the claim states it: PatternExtractor.extract returns MEDIUM exactly
\* when some period of the returned data holds a value, and LOW when no
\* strategy yielded a value, the empty text included.
C4_PatternConfidence ==
  pattern_result # NoResult =>
    pattern_result.confidence_overall =
      IF HasValue(pattern_result.data) THEN "medium" ELSE "low"

\* C5 as the claim states it: when no strategy that ran yielded a value, the
\* call still returns a result, its overall confidence is LOW, and each of
\* the 11 canonical items is in it with value null and confidence MISSING.
C5_TotalFailureAllMissing ==
  (Returned /\ \A k \in 1..Len(trace) : ~NumberFound(trace[k].out.data)) =>
    /\ result.status = "returned"
    /\ result.confidence_overall = "low"
    /\ \A item \in AllItems :
         \E p \in DOMAIN result.data :
            /\ item \in DOMAIN result.data[p]
            /\ result.data[p][item].value = None
            /\ result.data[p][item].confidence = "missing"

\* the pattern engine has been started
PatternStarted ==
  \/ pc \in {"pattern_years", "pattern_table", "pattern_line_by_line",
             "pattern_simple_key_value", "pattern_assemble", "pattern_raised",
             "document_fallback_return"}
  \/ pattern_result # NoResult
  \/ \E k \in 1..Len(trace) : trace[k].strategy \in PatternStrategies

\* C6: _extract_financial_data runs the free engine first; it runs the
\* pattern engine only if the free engine returned data without a value (or
\* raised); it returns the free engine's result, stamped with the file name
\* and the date, when that holds a value and the pattern engine's result,
\* stamped, otherwise: every field comes from the same engine.
C6_FreeFirstThenPattern ==
  entry = "document" =>
    /\ \A k \in 1..Len(trace) :
         trace[k].strategy \in FreeStrategies =>
           \A j \in 1..k : trace[j].strategy \in FreeStrategies
    /\ PatternStarted =>
         /\ Len(trace) >= 1 /\ trace[1].strategy = "free_table"
         /\ \/ free_result # NoResult /\ ~HasValue(free_result.data)
            \/ free_result = NoResult /\ \E k \in 1..Len(trace) : Raised(trace[k].out)
    /\ pc = "done" =>
         /\ free_result # NoResult \/ \E k \in 1..Len(trace) : Raised(trace[k].out)
         /\ IF free_result # NoResult /\ HasValue(free_result.data)
            THEN /\ result = [free_result EXCEPT !.document_name = filename,
                                                 !.extraction_date = now]
                 /\ ~PatternStarted
            ELSE /\ pattern_result # NoResult
                 /\ result = [pattern_result EXCEPT !.document_name = filename,
                                                    !.extraction_date = now]

\* C6, reached: the free engine found nothing, the pattern engine ran and
\* its result, which holds a value, was returned
C6_FellBackToPattern ==
  /\ entry = "document" /\ pc = "done"
  /\ free_result # NoResult
  /\ ~HasValue(free_result.data)
  /\ HasValue(result.data)
  /\ result.data = pattern_result.data

\* the two header years of the first line of the text, <<>> when it has none
HeaderYears == YearPairSearch(Lines[1])
\* the rows of the spec's table example, with one and with two decimals
ExampleRows == {"Revenue $1,100.2 $1,234.5", "Revenue $1,100.20 $1,234.50"}

\* C7 as the claim states it: with a header line of two years (A, B) and a
\* following row with label Revenue and tokens n1, n2, the table strategy
\* of either engine records n1 under B and n2 under A, and the periods of
\* its output are exactly A and B.
C7_TableValuesUnderHeaderYears ==
  \A k \in 1..Len(trace) :
    (/\ trace[k].strategy \in {"free_table", "pattern_table"}
     /\ Len(Lines) = 2 /\ HeaderYears # <<>> /\ Lines[2] \in ExampleRows) =>
      /\ DOMAIN trace[k].out.data = {HeaderYears[1], HeaderYears[2]}
      /\ "Revenue" \in DOMAIN trace[k].out.data[HeaderYears[2]]
      /\ trace[k].out.data[HeaderYears[2]]["Revenue"].value = V1100_2
      /\ "Revenue" \in DOMAIN trace[k].out.data[HeaderYears[1]]
      /\ trace[k].out.data[HeaderYears[1]]["Revenue"].value = V1234_5

\* key: value lines of the free engine's key-value strategy
KeyOf(line) == Strip(SubSeq(line, 1, IndexOf(line, ":") - 1))
RightSideOf(line) == Strip(From(line, IndexOf(line, ":") + 1))
KeyValueKeys == {"Revenue", "Expenses", "Net Income"}
KeyValueItem(key) == IF key = "Expenses" THEN "Operating Expenses" ELSE key
\* line j is a key: value line of a known key with a number the number
\* parser parses on its right side, and no later line has the same key
KeyValueLineAt(j) ==
  /\ Contains(Lines[j], ":")
  /\ KeyOf(Lines[j]) \in KeyValueKeys
  /\ Pattern_parse_number(RightSideOf(Lines[j])).kind = "float"
  /\ \A j2 \in (j + 1)..Len(Lines) :
       ~(Contains(Lines[j2], ":") /\ KeyOf(Lines[j2]) = KeyOf(Lines[j]))

\* C8 as the claim states it: for every such line the key-value strategy
\* records under "Current" the right side's number as the number parser
\* parses it (thousands separators stripped, sign kept), with confidence HIGH.
C8_KeyValueParsedValue ==
  \A k \in 1..Len(trace) :
    trace[k].strategy = "free_key_value" =>
      \A j \in 1..Len(Lines) :
        KeyValueLineAt(j) =>
          /\ DOMAIN trace[k].out.data = {"Current"}
          /\ KeyValueItem(KeyOf(Lines[j])) \in DOMAIN trace[k].out.data["Current"]
          /\ trace[k].out.data["Current"][KeyValueItem(KeyOf(Lines[j]))].value
               = Pattern_parse_number(RightSideOf(Lines[j]))
          /\ trace[k].out.data["Current"][KeyValueItem(KeyOf(Lines[j]))].confidence = "high"

C10_EuropeanFormat ==
  (entry = "parse_number" /\ pc = "done" /\ token = "1.234,56") =>
    parsed = Float(FALSE, "1234", "56")

\* the digit strings of the parser's tokens
DigitStrings == {"1", "11", "111", "1111"}
\* a call of either number parser has ended, by a return or by an exception
ParserEnded == entry \in ParserEntries /\ pc \in {"done", "parse_raised"}

\* C11 as the claim states it: each of the two number parsers removes the
\* thousands separators and reads a parenthesised token as a negative
\* number: "1,234.56" is 1234.56, "(1,234)" is -1234, and "(" d ")" is the
\* negative of d for every digit string d.
C11_SeparatorsAndParentheses ==
  ParserEnded =>
    /\ token = "1,234.56" => parsed = Float(FALSE, "1234", "56")
    /\ token = "(1,234)" => parsed = Float(TRUE, "1234", "")
    /\ \A d \in DigitStrings : token = "(" \o d \o ")" => parsed = Float(TRUE, d, "")

EngineResults == {free_result, pattern_result} \ {NoResult}
\* the currencies in the order of detection
CurrencyOrder == <<"USD", "EUR", "GBP", "JPY", "CNY">>
\* a symbol or word of the k-th currency occurs in s
CurrencyIndicator(k, s) == SearchAny(currency_patterns[k][2], Lower(s))
\* the first currency in the order that has an indicator in s
FirstIndicated(s) ==
  IF \E k \in 1..Len(CurrencyOrder) : CurrencyIndicator(k, s)
  THEN CurrencyOrder[MinOf({k \in 1..Len(CurrencyOrder) : CurrencyIndicator(k, s)})]
  ELSE "UNKNOWN"

\* C13 as the claim states it: in every result of either engine the currency
\* is the first of USD, EUR, GBP, JPY, CNY whose symbol or word occurs in
\* the text (JPY, never CNY, for a text whose only indicator is "¥"),
\* and UNKNOWN when none occurs.
C13_CurrencyFirstInOrder ==
  \A r \in EngineResults :
    /\ r.currency = FirstIndicated(Document(text))
    /\ Document(text) = "¥ 500" => r.currency = "JPY"

\* c is a letter or a digit
IsAlnum(c) == c \in Letters \cup Digits
\* w stands in s as a word: an occurrence with no letter or digit next to it
HasWord(s, w) ==
  \E i \in 1..(Len(s) - Len(w) + 1) :
    /\ MatchAt(s, w, i)
    /\ i = 1 \/ ~IsAlnum(Char(s, i - 1))
    /\ i + Len(w) > Len(s) \/ ~IsAlnum(Char(s, i + Len(w)))
\* s holds a word or an abbreviation of the k-th unit
UnitWord(k, s) ==
  \E a \in 1..Len(unit_patterns[k][2]) : HasWord(Lower(s), unit_patterns[k][2][a])
NoUnitWord(s) == \A k \in 1..Len(unit_patterns) : ~UnitWord(k, s)

\* C14 as the claim states it: the unit is MILLIONS for every text that holds
\* the word "millions" and no thousands indicator, and UNKNOWN for every
\* text that holds no thousands, millions or billions word or abbreviation;
\* a text with neither a currency indicator nor a unit word gives currency
\* UNKNOWN and unit UNKNOWN.
C14_UnitDetection ==
  \A r \in EngineResults :
    /\ (/\ HasWord(Lower(Document(text)), "millions")
        /\ ~SearchAny(unit_patterns[1][2], Lower(Document(text)))) => r.unit = "millions"
    /\ NoUnitWord(Document(text)) => r.unit = "UNKNOWN"
    /\ (NoUnitWord(Document(text)) /\ FirstIndicated(Document(text)) = "UNKNOWN") =>
         r.currency = "UNKNOWN" /\ r.unit = "UNKNOWN"

\* every null value of data has confidence MISSING or LOW
NullsAreLow(data) ==
  \A p \in DOMAIN data : \A i \in DOMAIN data[p] :
    data[p][i].value = None => data[p][i].confidence \in {"missing", "low"}

\* C15 as the claim states it: every value stored in the data of a strategy's
\* output or of a result that is null has confidence MISSING or LOW, also
\* when the number parser returned null for a matched token.
C15_NullValueNeverConfident ==
  /\ \A k \in 1..Len(trace) : NullsAreLow(trace[k].out.data)
  /\ \A r \in EngineResults : NullsAreLow(r.data)

\* the strategy an engine runs after the given one when that one gave nothing
FollowingStrategy ==
  [s \in {"free_table", "free_key_value", "pattern_table", "pattern_line_by_line"} |->
     CASE s = "free_table" -> "free_key_value"
       [] s = "free_key_value" -> "free_line_by_line"
       [] s = "pattern_table" -> "pattern_line_by_line"
       [] s = "pattern_line_by_line" -> "pattern_simple_key_value"]

\* C16 as the claim states it: an unexpected fault inside one strategy is
\* caught at the coordinator and counts as that strategy giving nothing:
\* no engine ends in the exception, the next strategy of the same engine
\* runs next, and the call that has ended has returned a result.
C16_FaultCaughtAtCoordinator ==
  /\ pc \notin {"free_raised", "pattern_raised"}
  /\ \A k \in 1..Len(trace) :
       (/\ Raised(trace[k].out)
        /\ trace[k].strategy \in DOMAIN FollowingStrategy
        /\ Len(trace) > k) =>
         trace[k + 1].strategy = FollowingStrategy[trace[k].strategy]
  /\ (fault # "none" /\ pc = "done") => result.status = "returned"

\* PatternExtractor.extract run alone on a text, from its last strategy back
\* to its first
AloneLast(document) ==
  PatternResult(document, Pattern_extract_simple_key_value(Split(document, NL)))
AloneAfterLineByLine(document, out, periods) ==
  IF NoData(out.data, periods) THEN AloneLast(document) ELSE PatternResult(document, out)
AloneAfterTable(document, out, periods) ==
  IF NoData(out.data, periods)
  THEN AloneAfterLineByLine(document, Pattern_extract_line_by_line(document, periods), periods)
  ELSE PatternResult(document, out)
AloneWithYears(document, periods) ==
  IF Len(periods) >= 2
  THEN AloneAfterTable(document, Pattern_extract_from_table(Split(document, NL), periods),
                       periods)
  ELSE AloneLast(document)
PatternAlone(document) ==
  AloneWithYears(document,
                 YearsOr(Pattern_extract_years_from_table(Split(document, NL)), document))

\* C17: under every interleaving of concurrent extraction calls, the result
\* of each call that has returned is the result of that call run alone on
\* its document, and no call has touched the locals of a call that has not
\* started.
C17_ConcurrentEqualsAlone ==
  \A c \in DOMAIN calls :
    /\ calls[c].pc = "done" => calls[c].result = PatternAlone(Document(calls[c].text))
    /\ calls[c].pc = "pattern_years" => calls[c] = Call(calls[c].text)

\* C17, reached: two calls on different documents have both returned, each
\* with values, and their results differ
C17_BothReturned ==
  /\ DOMAIN calls = Calls
  /\ calls[1].pc = "done" /\ calls[2].pc = "done"
  /\ calls[1].text = "2022 2023" \o NL \o "Revenue $1,100.20 $1,234.50"
  /\ calls[2].text = "Net Income: 88.1"
  /\ calls[1].result # calls[2].result
  /\ HasValue(calls[1].result.data) /\ HasValue(calls[2].result.data)

\* the lines of the text that are a header of two years
YearHeaders == {j \in 1..Len(Lines) : YearPairSearch(Lines[j]) # <<>>}
\* every value of data was taken from a line after the first year header
RowsAfterHeader(data) ==
  \A p \in DOMAIN data : \A i \in DOMAIN data[p] :
    \E j \in (MinOf(YearHeaders) + 1)..Len(Lines) :
      Strip(Lines[j]) = data[p][i].original_text

\* C18 as the claim states it: the table strategy of either engine yields
\* nothing when no line of the text is a header of two four-digit years
\* separated by whitespace, and takes its rows only from lines after such a
\* header.
C18_TableNeedsYearHeader ==
  \A k \in 1..Len(trace) :
    trace[k].strategy \in {"free_table", "pattern_table"} =>
      IF YearHeaders = {}
      THEN ~HasValue(trace[k].out.data)
      ELSE RowsAfterHeader(trace[k].out.data)

\* the "Label: Number" lines of the texts whose number is written plainly,
\* each with its item and its number
PlainKeyValueLines ==
  { <<"Revenue: 1234.5", "Revenue", V1234_5>>,
    <<"Net Income: 88.1", "Net Income", V88_1>> }
\* every line of the text is one of them
OnlyPlainKeyValueLines ==
  \A j \in 1..Len(Lines) : \E l \in PlainKeyValueLines : Lines[j] = l[1]

\* C19 as the claim states it: for a text without a year header that holds
\* only "Label: Number" lines with labels among Revenue, Expenses and Net
\* Income, the free engine's result has the one period "Current", which
\* holds each label's number, and the table strategy has taken no such line
\* under a year period.
C19_KeyValueLinesUnderCurrent ==
  (free_result # NoResult /\ OnlyPlainKeyValueLines) =>
    /\ \A k \in 1..Len(trace) :
         trace[k].strategy = "free_table" => ~HasValue(trace[k].out.data)
    /\ DOMAIN free_result.data = {"Current"}
    /\ \A l \in PlainKeyValueLines :
         (\E j \in 1..Len(Lines) : Lines[j] = l[1]) =>
           /\ l[2] \in DOMAIN free_result.data["Current"]
           /\ free_result.data["Current"][l[2]].value = l[3]

\* the entries of the table whose phrase occurs in the label or in whose
\* phrase the label occurs
MatchingEitherWay(label) ==
  {i \in 1..Len(mappings) :
     Contains(label, mappings[i][1]) \/ Contains(mappings[i][1], label)}
\* the item of the first of them in table order; the catch-alls when there
\* is none
ItemEitherWay(label) ==
  IF MatchingEitherWay(label) # {} THEN mappings[MinOf(MatchingEitherWay(label))][2]
  ELSE PartialMatch(label)

\* C20 as the claim states it: the normalizer lower-cases and trims the
\* label and returns the item of the first entry in table order whose phrase
\* is a substring of the label or of which the label is a substring; the
\* catch-alls are consulted only when no entry matched.
C20_FirstEntryEitherWay ==
  \A i \in 1..Len(normalized) :
    normalized[i].item = ItemEitherWay(Strip(Lower(normalized[i].label)))

\* raw mirrors data: the same periods, under each period the same items, and
\* for each item the provenance text of its value
Mirrors(raw, data) ==
  /\ DOMAIN raw = DOMAIN data
  /\ \A p \in DOMAIN data :
       /\ DOMAIN raw[p] = DOMAIN data[p]
       /\ \A i \in DOMAIN data[p] :
            /\ data[p][i].original_text # NoItem
            /\ raw[p][i] = data[p][i].original_text

\* C21: in every result of either engine, and in every strategy's output,
\* raw_extracts mirrors data: the same period keys, an entry under an item's
\* label exactly when data holds the item, equal to the provenance text of
\* the value, which is never null.
C21_RawExtractsMirrorData ==
  /\ \A r \in EngineResults : Mirrors(r.raw_extracts, r.data)
  /\ \A k \in 1..Len(trace) : Mirrors(trace[k].out.raw, trace[k].out.data)
  /\ result # NoResult => Mirrors(result.raw_extracts, result.data)

\* C21, reached: the pattern engine returned the output of the context-window
\* strategy, which holds a value taken by _extract_for_year
C21_ContextWindowReturned ==
  /\ entry = "pattern" /\ pc = "done"
  /\ Len(trace) = 2 /\ trace[2].strategy = "pattern_line_by_line"
  /\ HasValue(result.data)
  /\ result.raw_extracts = trace[2].out.raw

\* the warnings end with the summary of exactly the missing items when some
\* item is missing, and hold no summary when none is
SummaryWarningLast(warnings, missing_items) ==
  IF missing_items # {}
  THEN /\ Len(warnings) >= 1
       /\ warnings[Len(warnings)] = MissingWarning(missing_items)
  ELSE \A k \in 1..Len(warnings) : warnings[k].msg # "Missing items"

\* C22 as the claim states it: in the result of either engine the warnings
\* end with a summary warning that names every missing item whenever
\* missing_items is not empty, and hold no such warning when it is empty.
C22_SummaryWarningWhenMissing ==
  \A r \in EngineResults : SummaryWarningLast(r.warnings, r.missing_items)

\* the strategies the pattern engine has run, in order, each with its output
IsPatternRun(ran) == ran.strategy \in PatternStrategies
PatternTrace == SelectSeq(trace, IsPatternRun)
\* the pattern strategy that may run right after the given one
PatternSuccessor(strategy) ==
  CASE strategy = "pattern_table" -> "pattern_line_by_line"
    [] strategy = "pattern_line_by_line" -> "pattern_simple_key_value"
    [] OTHER -> "none"

\* C23: the pattern engine runs table, context-window, simple key-value in
\* this order; table and context-window run only when two years or more
\* were detected; a strategy runs after another only if that one gave no
\* value; the data and raw extracts of the result are the whole output of
\* the last strategy run, which is the only one that can hold a value.
C23_PatternStrategyOrder ==
  /\ \A k \in 1..Len(PatternTrace) :
       /\ PatternTrace[k].strategy \in {"pattern_table", "pattern_line_by_line"} =>
            Len(years) >= 2
       /\ k = 1 => PatternTrace[k].strategy =
                     IF Len(years) >= 2 THEN "pattern_table" ELSE "pattern_simple_key_value"
       /\ k > 1 => /\ PatternTrace[k].strategy = PatternSuccessor(PatternTrace[k - 1].strategy)
                   /\ ~HasValue(PatternTrace[k - 1].out.data)
  /\ pattern_result # NoResult =>
       /\ Len(PatternTrace) >= 1
       /\ pattern_result.data = PatternTrace[Len(PatternTrace)].out.data
       /\ pattern_result.raw_extracts = PatternTrace[Len(PatternTrace)].out.raw
       /\ \/ HasValue(pattern_result.data)
          \/ PatternTrace[Len(PatternTrace)].strategy = "pattern_simple_key_value"

\* C23, reached: with two years detected, the table and the context-window
\* strategy gave no value and the result is the output of the simple
\* key-value strategy, which holds one
C23_FellThroughToSimpleKeyValue ==
  /\ entry = "pattern" /\ pattern_result # NoResult
  /\ Len(years) >= 2
  /\ Len(trace) = 3
  /\ HasValue(trace[3].out.data)
  /\ pattern_result.data = trace[3].out.data

\* the match of a label variation in a context
MatchOf(context, variation) == VariationSearch(context, Lower(context), variation)
\* the text around a match, surrounding_chars on each side
SpanOf(context, match) ==
  SubSeq(context, Max(1, match.start - surrounding_chars),
         Min(Len(context), match.end + surrounding_chars))
\* the span holds the target year literally or a year of 2020..2025
SpanNamesYear(span, year) ==
  \/ Contains(span, year)
  \/ \E y \in Range(FindAllYears(span, 1)) : IntOf(y) \in first_recent_year..last_recent_year
\* the variation matched and the span of its match names the year
Accepted(context, year, variation) ==
  /\ MatchOf(context, variation).start # 0
  /\ SpanNamesYear(SpanOf(context, MatchOf(context, variation)), year)
\* the n-th variation is the first accepted one
FirstAccepted(context, year, variations, n) ==
  /\ Accepted(context, year, variations[n])
  /\ \A j \in 1..(n - 1) : ~Accepted(context, year, variations[j])
MatchedText(context, match) == SubSeq(context, match.start, match.end)
MatchedNumber(context, match) == SubSeq(context, match.num, match.end)
\* the recorded value is what the match of the variation gives
RecordedFromMatch(value, context, match) ==
  /\ value.confidence = "high"
  /\ value.original_text = MatchedText(context, match)
  /\ value.value = Pattern_parse_number(MatchedNumber(context, match))
\* the value recorded for (year, item) comes from the first accepted variation
RecordedFrom(value, context, year, variations) ==
  \E n \in 1..Len(variations) :
     /\ FirstAccepted(context, year, variations, n)
     /\ RecordedFromMatch(value, context, MatchOf(context, variations[n]))
\* nothing is recorded for (year, item): no variation is accepted, or the
\* number of the first accepted one does not parse
NothingToRecord(context, year, variations) ==
  \A n \in 1..Len(variations) :
     FirstAccepted(context, year, variations, n) =>
       Pattern_parse_number(MatchedNumber(context, MatchOf(context, variations[n]))) = None
Recorded(data, year, item) == year \in DOMAIN data /\ item \in DOMAIN data[year]
ContextWindowRuns ==
  {k \in 1..Len(trace) : trace[k].strategy = "pattern_line_by_line" /\ ~Raised(trace[k].out)}

\* C24: the context-window strategy records a value for (year, item) only
\* from the match of a label variation of the item whose surrounding span
\* holds the year literally or a year of 2020..2025; variations whose span
\* holds neither are passed over, the first accepted variation in list
\* order gives the value, its confidence is high and its original text is
\* the matched span.
C24_ContextWindowAcceptsBySpan ==
  \A k \in ContextWindowRuns : \A year \in Range(years) : \A item \in AllItems :
     IF Recorded(trace[k].out.data, year, item)
     THEN RecordedFrom(trace[k].out.data[year][item],
                       Pattern_get_year_context(Document(text), year), year,
                       item_variations[item])
     ELSE NothingToRecord(Pattern_get_year_context(Document(text), year), year,
                          item_variations[item])

\* C24, reached: the first variation of an item matched and was passed
\* over because its span names no year, and the value recorded for the
\* item comes from a later variation
C24_LaterVariationRecorded ==
  \E k \in ContextWindowRuns : \E year \in Range(years) : \E item \in AllItems :
     /\ Recorded(trace[k].out.data, year, item)
     /\ MatchOf(Pattern_get_year_context(Document(text), year),
                item_variations[item][1]).start # 0
     /\ ~Accepted(Pattern_get_year_context(Document(text), year), year,
                  item_variations[item][1])
     /\ trace[k].out.data[year][item].original_text = "sales 7"

\* C25: normalizing the display name of a canonical line item gives that
\* item, so every item can be reached from its own label.
C25_DisplayNameNormalizesToItself ==
  \A k \in 1..Len(normalized) :
     normalized[k].label \in AllItems => normalized[k].item = normalized[k].label

\* the status of a task, "none" before its entry exists
StatusOf(tasks, t) == IF t \in DOMAIN tasks THEN tasks[t].status ELSE "none"
\* the moves a status can make
StatusMoves ==
  {<<"none", PENDING>>, <<PENDING, PROCESSING>>, <<PROCESSING, COMPLETED>>,
   <<PROCESSING, FAILED>>}
\* the entry of the task is what it was
SameEntry(t) ==
  /\ (t \in DOMAIN processing_tasks) = (t \in DOMAIN processing_tasks')
  /\ t \in DOMAIN processing_tasks => processing_tasks'[t] = processing_tasks[t]
\* one step as far as the task is concerned
TaskMoves(t) ==
  \/ SameEntry(t)
  \/ /\ <<StatusOf(processing_tasks, t), StatusOf(processing_tasks', t)>> \in StatusMoves
     /\ \A u \in TaskIds \ {t} : SameEntry(u)

\* C26: a task is created PENDING and its status only moves from PENDING
\* to PROCESSING and from PROCESSING to COMPLETED or FAILED; an entry that
\* is COMPLETED or FAILED never changes again; a step that changes the
\* entry of one task leaves the entry of every other task as it was.
C26_StatusLifecycle == [][\A t \in TaskIds : TaskMoves(t)]_vars

\* C26, reached: a task was created and has completed while an earlier
\* one is still being processed
C26_TasksInterleaved ==
  \E t \in DOMAIN processing_tasks : \E u \in DOMAIN processing_tasks :
     /\ processing_tasks[t].status = COMPLETED
     /\ processing_tasks[u].status = PROCESSING
     /\ background_tasks[u].pc = "extract_financial_data"

\* the task is COMPLETED or FAILED
Ended(t) == StatusOf(processing_tasks, t) \in {COMPLETED, FAILED}
\* process_document has returned None for the task: no text was read, the
\* text was empty, or an engine raised
ReturnedNone(t) ==
  /\ t \in DOMAIN background_tasks
  /\ background_tasks[t].pc = "returned"
  /\ background_tasks[t].output_filename = NoFilename

HasOutputFile(t) == "output_file" \in DOMAIN processing_tasks[t]
\* the report of the task was to be generated and its spreadsheet is not
\* in the output directory
ReportFailed(t) ==
  /\ t \in DOMAIN background_tasks
  /\ background_tasks[t].pc = "returned"
  /\ background_tasks[t].output_filename # NoFilename
  /\ OutputPath(background_tasks[t].output_filename) \notin output_dir

\* C28: a task is COMPLETED with an output file only if the spreadsheet
\* report was generated, so that the file is in the output directory; a
\* task whose report generation failed is FAILED and names no output file.
C28_CompletedOnlyWithReport ==
  \A t \in DOMAIN processing_tasks :
     /\ processing_tasks[t].status = COMPLETED /\ HasOutputFile(t) =>
          OutputPath(processing_tasks[t].output_file) \in output_dir
     /\ ReportFailed(t) => processing_tasks[t].status = FAILED /\ ~HasOutputFile(t)

====
